---------------------------- MODULE Spec2Model ----------------------------
(***************************************************************************)
(* Model of the networking core of the metaverse engine                    *)
(* (src/godot/metaverse_networking.c): the NetworkManager, the receive     *)
(* path network_process_packet, and the send operations                    *)
(* network_send_entity_update, network_send_snapshot, network_send_voice.  *)
(*                                                                         *)
(* Spec      the receive context: datagrams arrive and are processed       *)
(* SpecSend  the send contexts: threads take sequence numbers and send     *)
(* SpecSnap  the snapshot tick of a server over a populated entity table   *)
(***************************************************************************)
EXTENDS Integers, Sequences, FiniteSets, TLC

----------------------------------------------------------------------------
(* Program constants                                                       *)

METAVERSE_PROTOCOL_VERSION == 1
MAX_PACKET_SIZE == 1400
MAX_PLAYERS == 1024
MAX_ENTITIES_PER_PACKET == 64
ENTITY_CAPACITY == 1024
SNAPSHOT_RING == 64

PACKET_CONNECT == 0
PACKET_DISCONNECT == 1
PACKET_ENTITY_UPDATE == 2
PACKET_VOICE_DATA == 6
PACKET_SNAPSHOT == 7
PACKET_INPUT == 8

\* uint16_t arithmetic of the sequence counters
U16 == 65536

\* sizeof(Vector4): four floats
SIZEOF_VECTOR4 == 16

\* sizeof(snapshot.player_ids): MAX_PLAYERS / 32 words of 4 bytes
SIZEOF_PLAYER_IDS == (MAX_PLAYERS \div 32) * 4

\* header: protocol_version:u8, packet_type:u8, sequence:u16
HEADER_SIZE == 4

\* bytes of an ENTITY_UPDATE datagram as network_send_entity_update builds it
ENTITY_UPDATE_SIZE == HEADER_SIZE + 8 + 4 + 1 + 4 + 3 * SIZEOF_VECTOR4 + 4

\* Vector4 components are floats: kept in units of 1/FloatScale
FloatScale == 100

Vector4(x, y, z, w) == [x |-> x, y |-> y, z |-> z, w |-> w]
Origin == Vector4(0, 0, 0, 0)
Identity == Vector4(0, 0, 0, FloatScale)

\* thresholds of network_reconcile_state: 0.1f and 0.01f
POSITION_EPSILON == 10
ROTATION_EPSILON == 1

\* age above which network_interpolate_entities skips an entity
STALE_AGE == 1000

----------------------------------------------------------------------------
(* Bounds of the model                                                     *)

\* datagrams the receive thread takes off the socket in one run
MaxRecv == 4
\* send operations started in one run
MaxSends == 3
\* seconds the clock advances in one run
MaxTime == 3
\* datagrams received and snapshots built in one run of the snapshot tick
MaxTouch == 2
MaxSnapshots == 2
\* connections accepted by the mobile extension in one run
MaxConnections == 3
\* how far local prediction moves and turns an entity in one run
MaxCoord == 16
MaxTurn == 2

\* sequence numbers carried by the datagrams that arrive
SeqInputs == {0, 1, 2, 4, 5, 65530}
\* remote addresses
Peers == {"A", "B"}
\* the manager's send thread, and the host application's threads that call
\* network_send_entity_update and network_send_voice
SendThread == "send_thread"
AppThreads == {"game", "audio"}
Threads == {SendThread} \cup AppThreads
\* the other two threads network_manager_start creates, and every thread
\* that runs code of the manager
ReceiveThread == "receive_thread"
UpdateThread == "update_thread"
ManagerThreads == {ReceiveThread, SendThread, UpdateThread}
Contexts == Threads \cup ManagerThreads
\* address of the server, as a client sees it
ServerAddress == "server"
\* data_size arguments of network_send_voice
VoiceSizes == {160}

\* packet types that arrive; all have a case in the dispatch switch
RecvTypes == {PACKET_CONNECT, PACKET_ENTITY_UPDATE}

\* what one tick of local prediction adds to position.x and rotation.x
PredictSteps == {<<4, 0>>, <<11, 0>>, <<0, 2>>}

\* the interpolation window the host configures for replicated entities
InterpolationWindow == 2

\* packet_loss_rate is a float: kept in units of 1/RateScale, +infinity apart
RateScale == 1000
RateInf == 0 - 1

----------------------------------------------------------------------------
VARIABLES
    is_server,               \* manager->is_server
    is_connected,            \* manager->is_connected
    players,                 \* manager->players[0 .. player_count-1]
    entities,                \* manager->entities[0 .. entity_count-1]
    snapshots,               \* manager->snapshots[64], slot -> snapshot or empty
    snapshot_head,           \* manager->snapshot_head
    snapshot_counter,        \* static snapshot_counter of network_send_snapshot
    next_send_sequence,      \* manager->next_send_sequence
    last_received_sequence,  \* manager->last_received_sequence
    packets_sent, packets_received, packets_lost,   \* uint32_t statistics;
    bytes_sent, bytes_received,                     \* far from 2^32 here
    packet_loss_rate,        \* manager->packet_loss_rate, in 1/RateScale units
    now,                     \* time(NULL), seconds
    call,                    \* per thread: the send operation it is inside
    wire,                    \* datagrams handed to sendto, in order
    crashed,                 \* the process wrote outside an object
    assigned,                \* sequence numbers taken by sends, in order
    event,                   \* the last step taken and the values before it
    peer_stream,             \* per peer: last sequence it sent (environment)
    streams_in_order,        \* every peer has sent its own stream in order
    gap_scenario,            \* how far the arrivals match 1,2,4,5 from fresh
    authoritative,           \* per entity: the state last received for it
                             \* and the local position before that
    sent_packets,            \* manager->sent_packets: reliable packets kept
                             \* for retransmission
    last_packet_time,        \* players[i].last_packet_time, per slot
    network_active,          \* manager->network_active
    thread,                  \* receive_thread, send_thread, update_thread:
                             \* where each pthread is
    udp_socket,              \* manager->udp_socket: open or closed
    caller,                  \* where the caller of network_manager_start
                             \* and network_manager_stop is
    network_ticks,           \* ticks of network_send_thread that have fired
    held,                    \* per thread: the mutexes it has locked
    access,                  \* what the last step read or wrote, which
                             \* network calls it made, and under which locks
    pending,                 \* per thread: the lock, unlock and use steps
                             \* left of the function it is in
    clients,                 \* extension->clients: a client or NULL per
                             \* slot, up to the last slot ever written (the
                             \* slots after it are NULL)
    client_count,            \* extension->client_count
    total_connections,       \* extension->total_connections
    client_memory,           \* the MobileClient records malloc has returned
    cache,                   \* manager->cache, up to the last slot ever
                             \* written, used or left over by a shift
    cache_size,              \* manager->cache_size
    found                    \* per caller: the entry find_in_cache returned

vars == <<is_server, is_connected, players, entities, snapshots, snapshot_head,
          snapshot_counter, next_send_sequence, last_received_sequence,
          packets_sent, packets_received, packets_lost, bytes_sent,
          bytes_received, packet_loss_rate, now, call, wire, crashed, assigned,
          event, peer_stream, streams_in_order, gap_scenario, authoritative,
          sent_packets, last_packet_time, network_active, thread,
          udp_socket, caller, network_ticks, held, access, pending,
          clients, client_count, total_connections, client_memory,
          cache, cache_size, found>>

\* the mobile extension and the cloud content cache
mobile == <<clients, client_count, total_connections, client_memory>>
cloud == <<cache, cache_size, found>>

\* the state the operations of the network manager leave alone
aside == <<pending, mobile, cloud>>

\* the network manager, but for the record of the last step
manager == <<is_server, is_connected, players, entities, snapshots,
             snapshot_head, snapshot_counter, next_send_sequence,
             last_received_sequence, packets_sent, packets_received,
             packets_lost, bytes_sent, bytes_received, packet_loss_rate,
             call, wire, assigned, peer_stream, streams_in_order,
             gap_scenario, authoritative, sent_packets, last_packet_time,
             network_active, thread, udp_socket, caller, network_ticks,
             held, access, pending>>

\* the state of the threads of network_manager_start / network_manager_stop
lifecycle == <<network_active, thread, udp_socket, caller>>

----------------------------------------------------------------------------
(* Datagrams that can arrive on the socket                                 *)

Packet(v, t, s, l, f, e) ==
    [version |-> v, ptype |-> t, sequence |-> s, length |-> l, from |-> f,
     entity_id |-> e, owner_id |-> 0, position |-> Origin,
     rotation |-> Identity]

\* well-formed datagrams of the protocol
\* (peer B only ever sends the start of its own stream)
FullPackets ==
    {Packet(METAVERSE_PROTOCOL_VERSION, t, s, ENTITY_UPDATE_SIZE, "A", 1) :
        t \in RecvTypes, s \in SeqInputs}
    \cup {Packet(METAVERSE_PROTOCOL_VERSION, PACKET_CONNECT, s,
                 ENTITY_UPDATE_SIZE, "B", 1) : s \in {1, 2}}

\* a complete header, but too short for the declared type
TruncatedPackets ==
    {Packet(METAVERSE_PROTOCOL_VERSION, PACKET_ENTITY_UPDATE, s, HEADER_SIZE,
            "A", 1) : s \in {5}}

\* shorter than the header: the header fields are never read
ShortPackets == {Packet(0, 0, 0, HEADER_SIZE - 1, "A", 1)}

\* another protocol version
ForeignPackets ==
    {Packet(METAVERSE_PROTOCOL_VERSION + 1, PACKET_ENTITY_UPDATE, s,
            ENTITY_UPDATE_SIZE, "B", 1) : s \in {5}}

\* the first datagram of each peer's session
ConnectPackets ==
    {Packet(METAVERSE_PROTOCOL_VERSION, PACKET_CONNECT, 1, ENTITY_UPDATE_SIZE,
            f, 1) : f \in Peers}

\* a peer's session ends
DisconnectPackets ==
    {Packet(METAVERSE_PROTOCOL_VERSION, PACKET_DISCONNECT, 2,
            ENTITY_UPDATE_SIZE, "A", 1)}

\* a peer connects and then updates an entity beyond the snapshot cap
TouchPackets ==
    {Packet(METAVERSE_PROTOCOL_VERSION, PACKET_CONNECT, 1, ENTITY_UPDATE_SIZE,
            "A", 1),
     Packet(METAVERSE_PROTOCOL_VERSION, PACKET_ENTITY_UPDATE, 2,
            ENTITY_UPDATE_SIZE, "A", MAX_ENTITIES_PER_PACKET + 1)}

\* the type bytes of the PacketType enum, and one value past its end
PACKET_ENTITY_CREATE == 3
PACKET_ENTITY_DESTROY == 4
PACKET_PONG == 11
TypeBytes == PACKET_CONNECT..(PACKET_PONG + 1)

\* well-formed datagrams of every type, in order or after a gap
TypedPackets ==
    {Packet(METAVERSE_PROTOCOL_VERSION, t, s, ENTITY_UPDATE_SIZE, "A", 1) :
        t \in TypeBytes, s \in 1..3}

Packets == FullPackets \cup TruncatedPackets \cup ShortPackets \cup ForeignPackets

----------------------------------------------------------------------------
(* Sequence tracking of network_process_packet                             *)

\* uint16_t expected_sequence = manager->last_received_sequence + 1
ExpectedSequence(last) == (last + 1) % U16

\* uint16_t lost_packets = sequence - expected_sequence
LostPackets(sequence, expected) == (sequence - expected + U16) % U16

\* 0.9 * packet_loss_rate + 0.1 * (lost_packets / (float)sequence)
NextLossRate(rate, lost, sequence) ==
    IF rate = RateInf \/ sequence = 0
    THEN RateInf
    ELSE (9 * rate + (RateScale * lost) \div sequence) \div 10

\* (variant: the sequences compared as plain unsigned numbers, a smaller
\* one taken for an old packet and dropped)
SequenceUpdate_Unsigned(last, lost, rate, sequence) ==
    LET expected == ExpectedSequence(last)
        gap == LostPackets(sequence, expected)
    IN  IF sequence < expected
        THEN [last |-> last, lost |-> lost, rate |-> rate, dispatch |-> FALSE]
        ELSE [last |-> sequence,
              lost |-> IF sequence # expected THEN lost + gap ELSE lost,
              rate |-> IF sequence # expected
                       THEN NextLossRate(rate, gap, sequence) ELSE rate,
              dispatch |-> TRUE]

\* the locked section of network_process_packet: the new values of
\* last_received_sequence, packets_lost, packet_loss_rate, and whether the
\* packet goes on to the dispatch switch
SequenceUpdate(last, lost, rate, sequence) ==
    LET expected == ExpectedSequence(last)
        gap == LostPackets(sequence, expected)
    IN  [last |-> sequence,
         lost |-> IF sequence # expected THEN lost + gap ELSE lost,
         rate |-> IF sequence # expected
                  THEN NextLossRate(rate, gap, sequence) ELSE rate,
         dispatch |-> TRUE]

----------------------------------------------------------------------------
(* Packet handlers called from the dispatch switch                         *)

\* (variant: every value of the type byte reaches a handler)
HandledTypes_Every == 0..255

\* packet types with a case in the switch of network_process_packet
HandledTypes == {0, 1, 2, 5, 6, 7, 8, 9, 10, 11}

\* the player slot that is connected from this address, if any
SlotOf(table, addr) ==
    {i \in 1..Len(table) : table[i].address = addr /\ table[i].connected}

\* network_handle_connect: the server registers the peer in the next slot
network_handle_connect(table, server, addr) ==
    IF server /\ SlotOf(table, addr) = {} /\ Len(table) < MAX_PLAYERS
    THEN Append(table, [player_id |-> Len(table) + 1, address |-> addr,
                        connected |-> TRUE])
    ELSE table

\* network_handle_disconnect: the server marks the peer's slot as no
\* longer connected
network_handle_disconnect(table, server, addr) ==
    IF server
    THEN [i \in 1..Len(table) |->
             IF table[i].address = addr
             THEN [table[i] EXCEPT !.connected = FALSE] ELSE table[i]]
    ELSE table

\* the entity carried by an ENTITY_UPDATE datagram
EntityOf(pkt) ==
    [entity_id |-> pkt.entity_id, owner_id |-> pkt.owner_id,
     position |-> pkt.position, rotation |-> pkt.rotation]

\* network_handle_entity_update: store the entity's state and the time of
\* the update; a payload too short for an entity is dropped
network_handle_entity_update(table, pkt, time) ==
    LET e == EntityOf(pkt)
        at == {i \in 1..Len(table) : table[i].entity_id = e.entity_id}
        rec == [entity_id |-> e.entity_id, owner_id |-> e.owner_id,
                last_update |-> time, position |-> e.position,
                rotation |-> e.rotation,
                interpolation_time |->
                    IF at # {} THEN table[CHOOSE i \in at : TRUE].interpolation_time
                    ELSE InterpolationWindow]
    IN  IF pkt.length < ENTITY_UPDATE_SIZE THEN table
        ELSE IF at # {} THEN [i \in 1..Len(table) |->
                                 IF i \in at THEN rec ELSE table[i]]
        ELSE IF Len(table) < ENTITY_CAPACITY THEN Append(table, rec)
        ELSE table

\* network_handle_snapshot: a client stores the state of the entity the
\* snapshot carries as its latest known state
network_handle_snapshot(table, server, pkt, time) ==
    IF server THEN table ELSE network_handle_entity_update(table, pkt, time)

\* network_handle_input: the server applies the input of a connected peer
\* to the entity the peer owns; the packet carries the resulting position
network_handle_input(table, registry, server, pkt, time) ==
    LET senders == {registry[j].player_id : j \in SlotOf(registry, pkt.from)}
    IN  IF server
        THEN [i \in 1..Len(table) |->
                 IF /\ table[i].entity_id = pkt.entity_id
                    /\ table[i].owner_id \in senders
                 THEN [table[i] EXCEPT !.position = pkt.position,
                                       !.last_update = time]
                 ELSE table[i]]
        ELSE table

\* the state a datagram brings for its entity, and the position the local
\* copy had before it
Heard(known, table, server, pkt) ==
    LET at == {i \in 1..Len(table) : table[i].entity_id = pkt.entity_id}
    IN  IF /\ pkt.length >= ENTITY_UPDATE_SIZE
           /\ \/ pkt.ptype = PACKET_ENTITY_UPDATE
              \/ pkt.ptype = PACKET_SNAPSHOT /\ ~server
        THEN (pkt.entity_id :>
                 [position |-> pkt.position, rotation |-> pkt.rotation,
                  prior |-> IF at # {}
                            THEN table[CHOOSE i \in at : TRUE].position
                            ELSE pkt.position]) @@ known
        ELSE known

\* the server notes the arrival time of a datagram in the slot of the
\* connected player it comes from
Touched(times, table, server, addr, time) ==
    IF server
    THEN [i \in 1..Len(table) |->
             IF table[i].address = addr /\ table[i].connected THEN time
             ELSE IF i <= Len(times) THEN times[i]
             ELSE time]
    ELSE times

\* the switch on packet_type
Dispatch(pkt) ==
    /\ players' = IF pkt.ptype = PACKET_CONNECT
                  THEN network_handle_connect(players, is_server, pkt.from)
                  ELSE IF pkt.ptype = PACKET_DISCONNECT
                  THEN network_handle_disconnect(players, is_server, pkt.from)
                  ELSE players
    /\ entities' = IF pkt.ptype = PACKET_ENTITY_UPDATE
                   THEN network_handle_entity_update(entities, pkt, now)
                   ELSE IF pkt.ptype = PACKET_SNAPSHOT
                   THEN network_handle_snapshot(entities, is_server, pkt, now)
                   ELSE IF pkt.ptype = PACKET_INPUT
                   THEN network_handle_input(entities, players, is_server,
                                             pkt, now)
                   ELSE entities
    /\ authoritative' = Heard(authoritative, entities, is_server, pkt)
    /\ last_packet_time' = Touched(last_packet_time, players', is_server,
                                   pkt.from, now)

----------------------------------------------------------------------------
(* Locks.  An operation is the sequence of its lock and unlock calls, of   *)
(* the shared data it uses and of its network calls, in the order of the   *)
(* code.                                                                   *)

entity_mutex == "entity_mutex"
player_mutex == "player_mutex"
network_mutex == "network_mutex"

\* (variant: the mutex stays locked)
pthread_mutex_unlock_Kept(locked, m) == locked

pthread_mutex_unlock(locked, m) == locked \ {m}

pthread_mutex_lock(locked, m) == locked \cup {m}

Lock(m) == [do |-> "lock", on |-> m]
Unlock(m) == [do |-> "unlock", on |-> m]
Use(what) == [do |-> "use", on |-> what]

\* the mutexes held after the steps, and each use with the mutexes held
\* at that point
RECURSIVE Locking(_, _, _)
Locking(locked, uses, steps) ==
    IF steps = <<>> THEN [held |-> locked, uses |-> uses]
    ELSE LET step == Head(steps)
         IN  IF step.do = "lock"
             THEN Locking(pthread_mutex_lock(locked, step.on), uses,
                          Tail(steps))
             ELSE IF step.do = "unlock"
             THEN Locking(pthread_mutex_unlock(locked, step.on), uses,
                          Tail(steps))
             ELSE Locking(locked,
                          uses \cup {[what |-> step.on, under |-> locked]},
                          Tail(steps))

\* thread t runs the steps: a mutex it locks is not held by another thread
Runs(t, steps) ==
    LET after == Locking(held[t], {}, steps)
        wanted == {steps[i].on : i \in {j \in 1..Len(steps) :
                                           steps[j].do = "lock"}}
    IN  /\ \A m \in wanted : \A u \in Contexts \ {t} : m \notin held[u]
        /\ held' = [held EXCEPT ![t] = after.held]
        /\ access' = {[what |-> a.what, under |-> a.under, thread |-> t] :
                         a \in after.uses}
        /\ UNCHANGED aside

\* a step that uses no shared table and makes no network call
NoAccess ==
    /\ access' = {}
    /\ UNCHANGED <<held, aside>>

\* the sequence number of a send operation: 442-444, 536-538, 692-694
SendLocking ==
    <<Lock(network_mutex), Use("next_send_sequence"), Unlock(network_mutex)>>

\* network_send_snapshot up to the serialized packet
SnapshotLocking ==
    <<Lock(entity_mutex), Use("entities"), Unlock(entity_mutex),
      Lock(player_mutex), Use("players"), Unlock(player_mutex)>>
    \o SendLocking

\* the sendto loop of a send operation: a server walks the player table
\* and calls sendto if it finds a destination
TransmitLocking(server, dests) ==
    IF server
    THEN <<Use("players")>>
         \o (IF dests # <<>> THEN <<Use("sendto")>> ELSE <<>>)
    ELSE <<Use("sendto")>>

\* the handlers take the lock of the table they write
HandlerLocking(ptype) ==
    IF ptype \in {PACKET_CONNECT, PACKET_DISCONNECT}
    THEN <<Lock(player_mutex), Use("players"), Unlock(player_mutex)>>
    ELSE IF ptype \in {PACKET_ENTITY_UPDATE, PACKET_SNAPSHOT}
    THEN <<Lock(entity_mutex), Use("entities"), Unlock(entity_mutex)>>
    ELSE IF ptype = PACKET_INPUT
    THEN <<Lock(player_mutex), Use("players"), Unlock(player_mutex),
           Lock(entity_mutex), Use("entities"), Unlock(entity_mutex)>>
    ELSE <<>>

\* one iteration of network_receive_thread: recvfrom, then
\* network_process_packet
ReceiveLocking(accepted, ptype) ==
    <<Use("recvfrom")>>
    \o (IF accepted
        THEN <<Lock(network_mutex), Use("last_received_sequence"),
               Unlock(network_mutex)>> \o HandlerLocking(ptype)
        ELSE <<>>)

\* network_interpolate_entities and network_reconcile_state
UpdateLocking ==
    <<Lock(entity_mutex), Use("entities"), Unlock(entity_mutex)>>

\* the steps of an operation from its first lock to its return
Program(fn, server, dests) ==
    CASE fn \in {"network_send_entity_update", "network_send_voice"} ->
            SendLocking \o TransmitLocking(server, dests)
      [] fn = "network_send_snapshot" ->
            SnapshotLocking \o TransmitLocking(server, dests)
      [] fn \in {"network_interpolate_entities", "network_reconcile_state"} ->
            UpdateLocking

\* the thread an operation runs on
RunsOn(fn) ==
    CASE fn = "network_send_entity_update" -> "game"
      [] fn = "network_send_voice" -> "audio"
      [] fn = "network_send_snapshot" -> SendThread
      [] fn \in {"network_interpolate_entities", "network_reconcile_state"} ->
            UpdateThread

\* one lock, unlock or use of the function thread t is in; a lock waits
\* until no thread holds the mutex
LockStep(t) ==
    /\ pending[t] # <<>>
    /\ LET step == Head(pending[t])
       IN  /\ step.do = "lock" =>
                  \A u \in Contexts : step.on \notin held[u]
           /\ held' = [held EXCEPT ![t] =
                          IF step.do = "lock"
                          THEN pthread_mutex_lock(held[t], step.on)
                          ELSE IF step.do = "unlock"
                          THEN pthread_mutex_unlock(held[t], step.on)
                          ELSE held[t]]
           /\ access' = IF step.do = "use"
                        THEN {[what |-> step.on, under |-> held[t],
                               thread |-> t]}
                        ELSE {}
    /\ pending' = [pending EXCEPT ![t] = Tail(pending[t])]
    /\ UNCHANGED <<is_server, is_connected, players, entities, snapshots,
                   snapshot_head, snapshot_counter, next_send_sequence,
                   last_received_sequence, packets_sent, packets_received,
                   packets_lost, bytes_sent, bytes_received, packet_loss_rate,
                   now, call, wire, crashed, assigned, event, peer_stream,
                   streams_in_order, gap_scenario, authoritative,
                   sent_packets, last_packet_time, network_ticks, lifecycle,
                   mobile, cloud>>

\* thread t goes into a function with these steps ahead of it
Enters(t, steps) ==
    /\ pending[t] = <<>>
    /\ pending' = [pending EXCEPT ![t] = steps]
    /\ UNCHANGED <<is_server, is_connected, players, entities, snapshots,
                   snapshot_head, snapshot_counter, next_send_sequence,
                   last_received_sequence, packets_sent, packets_received,
                   packets_lost, bytes_sent, bytes_received, packet_loss_rate,
                   now, call, wire, crashed, assigned, event, peer_stream,
                   streams_in_order, gap_scenario, authoritative,
                   sent_packets, last_packet_time, network_ticks, lifecycle,
                   held, access, mobile, cloud>>

----------------------------------------------------------------------------
(* network_receive_thread: one datagram taken off the socket               *)

\* (variant: the protocol version is not looked at)
HeaderAccepted_AnyVersion(pkt) == pkt.length >= HEADER_SIZE

\* the checks of network_process_packet before the sequence tracking
HeaderAccepted(pkt) ==
    /\ pkt.length >= HEADER_SIZE
    /\ pkt.version = METAVERSE_PROTOCOL_VERSION

Scenario == <<1, 2, 4, 5>>

network_process_packet(pkt) ==
    IF HeaderAccepted(pkt)
    THEN LET u == SequenceUpdate(last_received_sequence, packets_lost,
                                 packet_loss_rate, pkt.sequence)
             inorder == pkt.sequence = ExpectedSequence(peer_stream[pkt.from])
         IN  /\ last_received_sequence' = u.last
             /\ packets_lost' = u.lost
             /\ packet_loss_rate' = u.rate
             /\ IF u.dispatch THEN Dispatch(pkt)
                              ELSE UNCHANGED <<players, entities, authoritative,
                                               last_packet_time>>
             /\ event' = [op |-> "recv", pkt |-> pkt,
                          handler |-> IF u.dispatch
                                      THEN {pkt.ptype} \cap HandledTypes ELSE {},
                          prev_seq |-> last_received_sequence,
                          prev_lost |-> packets_lost,
                          prev_rate |-> packet_loss_rate]
             /\ peer_stream' = [peer_stream EXCEPT ![pkt.from] = pkt.sequence]
             /\ streams_in_order' = (streams_in_order /\ inorder)
             /\ gap_scenario' =
                    IF /\ gap_scenario >= 0
                       /\ gap_scenario < Len(Scenario)
                       /\ pkt.sequence = Scenario[gap_scenario + 1]
                    THEN gap_scenario + 1 ELSE 0 - 1
    ELSE /\ UNCHANGED <<last_received_sequence, packets_lost, packet_loss_rate,
                        players, entities, peer_stream, streams_in_order,
                        gap_scenario, authoritative, last_packet_time>>
         /\ event' = [op |-> "recv", pkt |-> pkt, handler |-> {},
                      prev_seq |-> last_received_sequence,
                      prev_lost |-> packets_lost,
                      prev_rate |-> packet_loss_rate]

Receive(pkt) ==
    /\ ~crashed
    /\ packets_received < MaxRecv
    /\ packets_received' = packets_received + 1
    /\ bytes_received' = bytes_received + pkt.length
    /\ network_process_packet(pkt)
    /\ Runs(ReceiveThread,
            ReceiveLocking(HeaderAccepted(pkt), pkt.ptype))
    /\ UNCHANGED <<is_server, is_connected, snapshots, snapshot_head,
                   snapshot_counter, next_send_sequence, packets_sent,
                   bytes_sent, now, call, wire, crashed, assigned,
                   sent_packets, network_ticks, lifecycle>>

----------------------------------------------------------------------------
(* Send operations.  Each takes its sequence number under network_mutex,   *)
(* serializes, and hands the datagram to sendto after the mutex is         *)
(* released: two steps per call.                                           *)

Idle == [op |-> "idle"]

\* manager->local_player_id: set at creation, assigned nowhere else
local_player_id == 0

\* (variant: the counter is read but not advanced)
NextSendSequence_Stale(n) == n

\* manager->next_send_sequence++ on a uint16_t
NextSendSequence(n) == (n + 1) % U16

\* sizeof(VoicePacket) - sizeof(voice.audio_data): the fields before the
\* audio bytes, with the struct's alignment padding
VOICE_HEADER_SIZE == 20

\* bytes of one serialized snapshot entity with change_mask 0xFF
SNAPSHOT_ENTITY_SIZE == 1 + 8 + 4 + 1 + 3 * SIZEOF_VECTOR4

\* ptr - packet after network_send_snapshot has serialized the snapshot
SnapshotPacketSize(count) ==
    HEADER_SIZE + 4 + 4 + 4 + count * SNAPSHOT_ENTITY_SIZE + SIZEOF_PLAYER_IDS

\* (variant: the difference is taken as a signed number)
ChangedRecently_Signed(time, last_update) == time - last_update <= 2

\* now - last_update <= 2 on uint32_t: a last_update after now wraps to a
\* distance far above 2
ChangedRecently(time, last_update) ==
    /\ last_update <= time
    /\ time - last_update <= 2

\* (variant: the cap is tested one entity late)
SnapshotFull_Late(count) == count > MAX_ENTITIES_PER_PACKET

\* if (snapshot.entity_count >= MAX_ENTITIES_PER_PACKET) break
SnapshotFull(count) == count >= MAX_ENTITIES_PER_PACKET

\* the loop that fills snapshot.entities from manager->entities[i ..]
RECURSIVE SnapshotEntities(_, _, _, _)
SnapshotEntities(table, i, acc, time) ==
    IF i > Len(table) THEN acc
    ELSE IF SnapshotFull(Len(acc)) THEN acc
    ELSE IF ChangedRecently(time, table[i].last_update)
         THEN SnapshotEntities(table, i + 1, Append(acc, table[i]), time)
         ELSE SnapshotEntities(table, i + 1, acc, time)

\* snapshot.player_ids: bit i set for each connected slot i
PlayerBitmask(table) == {i \in 0..(Len(table) - 1) : table[i + 1].connected}

\* (variant: the loop sends to every slot of the player table)
Destinations_AllSlots(table, server, ptype) ==
    IF server
    THEN [i \in 1..Len(table) |-> table[i].address]
    ELSE <<ServerAddress>>

\* the sendto calls of one operation: to every connected player on a
\* server, to the server on a client
Destinations(table, server, ptype) ==
    IF server
    THEN LET to(i) == IF /\ table[i].connected
                         /\ (ptype = PACKET_VOICE_DATA =>
                                table[i].player_id # local_player_id)
                      THEN table[i].address ELSE ""
         IN  SelectSeq([i \in 1..Len(table) |-> to(i)], LAMBDA a : a # "")
    ELSE <<ServerAddress>>

Datagrams(c, dests) ==
    [i \in 1..Len(dests) |->
        [to |-> dests[i], ptype |-> c.ptype, sequence |-> c.sequence,
         size |-> c.size]]

\* the sequence number is written to the packet; content is the local
\* structure the payload is then serialized from
TakeSequenceOf(t, ptype, size, content) ==
    /\ next_send_sequence' = NextSendSequence(next_send_sequence)
    /\ assigned' = Append(assigned, next_send_sequence)
    /\ call' = [call EXCEPT ![t] = [op |-> "sendto", ptype |-> ptype,
                                    sequence |-> next_send_sequence,
                                    size |-> size, content |-> content]]
    /\ event' = [op |-> "assign", thread |-> t, ptype |-> ptype,
                 sequence |-> next_send_sequence]

TakeSequence(t, ptype, size) == TakeSequenceOf(t, ptype, size, <<>>)

\* the operations that open with a test of the role or the connection
Guarded ==
    {"network_send_entity_update", "network_send_voice",
     "network_send_snapshot", "network_interpolate_entities",
     "network_reconcile_state"}

\* (variant: no operation tests its precondition)
Proceeds_Always(fn, server, connected) == TRUE

\* the test on the first line of an operation: FALSE where it returns
Proceeds(fn, server, connected) ==
    CASE fn \in {"network_send_entity_update", "network_send_voice"} ->
            connected
      [] fn = "network_send_snapshot" -> server
      [] fn \in {"network_interpolate_entities", "network_reconcile_state"} ->
            ~server

\* an operation called while its precondition fails returns at once
EarlyReturn(t, fn) ==
    /\ ~crashed
    /\ ~Proceeds(fn, is_server, is_connected)
    /\ event' = [op |-> "return", fn |-> fn, thread |-> t,
                 prev_sequence |-> next_send_sequence]
    /\ NoAccess
    /\ UNCHANGED <<is_server, is_connected, players, entities, snapshots,
                   snapshot_head, snapshot_counter, next_send_sequence,
                   last_received_sequence, packets_sent, packets_received,
                   packets_lost, bytes_sent, bytes_received, packet_loss_rate,
                   now, call, wire, crashed, assigned, peer_stream,
                   streams_in_order, gap_scenario, authoritative,
                   sent_packets, last_packet_time, network_ticks, lifecycle>>

\* network_send_entity_update up to the serialized packet
EntityUpdateBegin(t) ==
    /\ ~crashed
    /\ t \in AppThreads
    /\ call[t] = Idle
    /\ Len(assigned) < MaxSends
    /\ Proceeds("network_send_entity_update", is_server, is_connected)
    /\ TakeSequence(t, PACKET_ENTITY_UPDATE, ENTITY_UPDATE_SIZE)
    /\ Runs(t, SendLocking)
    /\ UNCHANGED <<is_server, is_connected, players, entities, snapshots,
                   snapshot_head, snapshot_counter, last_received_sequence,
                   packets_sent, packets_received, packets_lost, bytes_sent,
                   bytes_received, packet_loss_rate, now, wire, crashed,
                   peer_stream, streams_in_order, gap_scenario,
                   authoritative,
                   sent_packets, last_packet_time, network_ticks, lifecycle>>

\* sizeof(voice.audio_data)
AUDIO_DATA_SIZE == 1200

\* ptr - packet after network_send_voice has serialized the voice packet
VoicePacketSize(data_size) == HEADER_SIZE + VOICE_HEADER_SIZE + data_size

\* the two memcpy calls of network_send_voice copy data_size bytes into
\* voice.audio_data and the voice packet into packet[MAX_PACKET_SIZE]
\* without a test of data_size: past either buffer they write over the
\* stack
VoiceOverflows(data_size) ==
    \/ data_size > AUDIO_DATA_SIZE
    \/ VoicePacketSize(data_size) > MAX_PACKET_SIZE

\* network_send_voice up to the serialized packet.  A write past a buffer
\* on the stack aborts the process or lets it carry on.
VoiceBegin(t, data_size) ==
    /\ ~crashed
    /\ t \in AppThreads
    /\ call[t] = Idle
    /\ Len(assigned) < MaxSends
    /\ Proceeds("network_send_voice", is_server, is_connected)
    /\ TakeSequence(t, PACKET_VOICE_DATA, VoicePacketSize(data_size))
    /\ \E abort \in IF VoiceOverflows(data_size) THEN BOOLEAN ELSE {FALSE} :
          crashed' = abort
    /\ Runs(t, SendLocking)
    /\ UNCHANGED <<is_server, is_connected, players, entities, snapshots,
                   snapshot_head, snapshot_counter, last_received_sequence,
                   packets_sent, packets_received, packets_lost, bytes_sent,
                   bytes_received, packet_loss_rate, now, wire,
                   peer_stream, streams_in_order, gap_scenario,
                   authoritative,
                   sent_packets, last_packet_time, network_ticks, lifecycle>>

\* (variant: the counter is read but not advanced)
NextSnapshotCounter_Stale(n) == n

\* snapshot_counter++ of network_send_snapshot
NextSnapshotCounter(n) == n + 1

\* the fields of one entity the serialization loop writes
SerializeEntity(entity) ==
    [entity_id |-> entity.entity_id, owner_id |-> entity.owner_id,
     position |-> entity.position, rotation |-> entity.rotation]

\* the payload network_send_snapshot writes after the header: id,
\* timestamp, the entities and the player bitmask; player_count is not sent
SerializeSnapshot(snapshot) ==
    [snapshot_id |-> snapshot.snapshot_id,
     timestamp |-> snapshot.timestamp,
     entities |-> [k \in 1..Len(snapshot.entities) |->
                      SerializeEntity(snapshot.entities[k])],
     player_ids |-> snapshot.player_ids]

\* entities whose bytes lie inside packet[MAX_PACKET_SIZE]
FitsInPacket ==
    (MAX_PACKET_SIZE - SnapshotPacketSize(0)) \div SNAPSHOT_ENTITY_SIZE

\* a payload written past the end of the packet buffer: the bytes beyond
\* it share the stack with the other locals and do not survive
Clobbered(payload) ==
    [payload EXCEPT !.entities = SubSeq(payload.entities, 1, FitsInPacket),
                    !.player_ids = {}]

\* what the packet buffer can hold when the serialization of a send
\* operation is done
Serialized(c) ==
    IF c.ptype # PACKET_SNAPSHOT THEN {<<>>}
    ELSE IF c.size > MAX_PACKET_SIZE
    THEN {SerializeSnapshot(c.content),
          Clobbered(SerializeSnapshot(c.content))}
    ELSE {SerializeSnapshot(c.content)}

\* network_send_snapshot up to the serialized packet.  Serializing more
\* than MAX_PACKET_SIZE bytes writes past the packet buffer on the stack:
\* the process aborts or carries on.
SnapshotBuild(t) ==
    /\ ~crashed
    /\ t = SendThread
    /\ call[t] = Idle
    /\ Len(assigned) < MaxSends
    /\ Proceeds("network_send_snapshot", is_server, is_connected)
    /\ LET snapshot == [snapshot_id |-> snapshot_counter,
                        timestamp |-> now,
                        entities |-> SnapshotEntities(entities, 1, <<>>, now),
                        player_count |-> Len(players),
                        player_ids |-> PlayerBitmask(players)]
           size == SnapshotPacketSize(Len(snapshot.entities))
       IN  /\ snapshot_counter' = NextSnapshotCounter(snapshot_counter)
           /\ snapshots' = [snapshots EXCEPT ![snapshot_head] = snapshot]
           /\ snapshot_head' = (snapshot_head + 1) % SNAPSHOT_RING
           /\ TakeSequenceOf(t, PACKET_SNAPSHOT, size, snapshot)
           /\ \E abort \in IF size > MAX_PACKET_SIZE THEN BOOLEAN ELSE {FALSE} :
                 crashed' = abort
    /\ Runs(t, SnapshotLocking)
    /\ UNCHANGED <<is_server, is_connected, players, entities,
                   last_received_sequence, packets_sent, packets_received,
                   packets_lost, bytes_sent, bytes_received, packet_loss_rate,
                   now, wire, peer_stream, streams_in_order, gap_scenario,
                   authoritative,
                   sent_packets, last_packet_time, lifecycle>>

\* network_send_snapshot called outside the tick of network_send_thread
SnapshotBegin(t) ==
    /\ SnapshotBuild(t)
    /\ UNCHANGED network_ticks

\* packets_sent / bytes_sent after the sendto calls: the snapshot counts
\* every datagram, the other operations count one packet
SentCount(c, dests) == IF c.ptype = PACKET_SNAPSHOT THEN Len(dests) ELSE 1

\* the sendto loop of a send operation and its statistics; the datagram
\* carries one of payloads
Sendto(t, payloads) ==
    /\ ~crashed
    /\ call[t] # Idle
    /\ LET c == call[t]
           dests == Destinations(players, is_server, c.ptype)
       IN  /\ wire' = wire \o Datagrams(c, dests)
           /\ packets_sent' = packets_sent + SentCount(c, dests)
           /\ bytes_sent' = bytes_sent + SentCount(c, dests) * c.size
           /\ \E payload \in payloads :
                 event' = [op |-> "sendto", thread |-> t, ptype |-> c.ptype,
                           sequence |-> c.sequence,
                           to |-> {dests[i] : i \in 1..Len(dests)},
                           payload |-> payload]
    /\ call' = [call EXCEPT ![t] = Idle]
    /\ Runs(t, TransmitLocking(is_server,
                               Destinations(players, is_server,
                                            call[t].ptype)))
    /\ UNCHANGED <<is_server, is_connected, players, entities, snapshots,
                   snapshot_head, snapshot_counter, next_send_sequence,
                   last_received_sequence, packets_received, packets_lost,
                   bytes_received, packet_loss_rate, now, crashed, assigned,
                   peer_stream, streams_in_order, gap_scenario,
                   authoritative,
                   sent_packets, last_packet_time, network_ticks, lifecycle>>

\* the sendto loop, the bytes of the payload left aside
Transmit(t) == Sendto(t, {<<>>})

\* the sendto loop of network_send_snapshot with the payload it serialized
TransmitSnapshot(t) ==
    /\ call[t] # Idle
    /\ Sendto(t, Serialized(call[t]))

----------------------------------------------------------------------------
(* The rest of the environment                                             *)

\* network_manager_connect: a client's connection to its server is up
network_manager_connect ==
    /\ ~crashed
    /\ ~is_server
    /\ ~is_connected
    /\ is_connected' = TRUE
    /\ event' = [op |-> "connect"]
    /\ NoAccess
    /\ UNCHANGED <<is_server, players, entities, snapshots, snapshot_head,
                   snapshot_counter, next_send_sequence,
                   last_received_sequence, packets_sent, packets_received,
                   packets_lost, bytes_sent, bytes_received, packet_loss_rate,
                   now, call, wire, crashed, assigned, peer_stream,
                   streams_in_order, gap_scenario, authoritative,
                   sent_packets, last_packet_time, network_ticks, lifecycle>>

\* time(NULL) moves on by a second
Tick ==
    /\ ~crashed
    /\ now < MaxTime
    /\ now' = now + 1
    /\ event' = [op |-> "tick"]
    /\ NoAccess
    /\ UNCHANGED <<is_server, is_connected, players, entities, snapshots,
                   snapshot_head, snapshot_counter, next_send_sequence,
                   last_received_sequence, packets_sent, packets_received,
                   packets_lost, bytes_sent, bytes_received, packet_loss_rate,
                   call, wire, crashed, assigned, peer_stream,
                   streams_in_order, gap_scenario, authoritative,
                   sent_packets, last_packet_time, network_ticks, lifecycle>>

----------------------------------------------------------------------------
(* The client's update context: prediction, interpolation, reconciliation  *)

\* vector_distance(a, b) > limit: the root of the squared x, y and z
\* differences (w is not read), compared on the squares
VectorDistanceExceeds(a, b, limit) ==
    LET dx == a.x - b.x
        dy == a.y - b.y
        dz == a.z - b.z
    IN  dx * dx + dy * dy + dz * dz > limit * limit

\* find_server_entity: the first entry of the manager's own entity table
\* with that id; 0 for NULL
find_server_entity(table, id) ==
    LET at == {i \in 1..Len(table) : table[i].entity_id = id}
    IN  IF at = {} THEN 0 ELSE CHOOSE i \in at : \A j \in at : i <= j

\* (variant: the test for a mismatch is inverted)
Mismatch_Inverted(entity, server_entity) ==
    ~ \/ VectorDistanceExceeds(entity.position, server_entity.position,
                               POSITION_EPSILON)
      \/ VectorDistanceExceeds(entity.rotation, server_entity.rotation,
                               ROTATION_EPSILON)

\* the mismatch test of network_reconcile_state
Mismatch(entity, server_entity) ==
    \/ VectorDistanceExceeds(entity.position, server_entity.position,
                             POSITION_EPSILON)
    \/ VectorDistanceExceeds(entity.rotation, server_entity.rotation,
                             ROTATION_EPSILON)

\* table indices network_reconcile_state corrects.  The entry
\* find_server_entity returns is the first of its id, which the loop
\* compares with itself and never changes.
Mismatched(table) ==
    {i \in 1..Len(table) :
        /\ table[i].owner_id = local_player_id
        /\ find_server_entity(table, table[i].entity_id) # 0
        /\ Mismatch(table[i],
                    table[find_server_entity(table, table[i].entity_id)])}

Reconciled(table) ==
    [i \in 1..Len(table) |->
        IF i \in Mismatched(table)
        THEN LET server_entity ==
                     table[find_server_entity(table, table[i].entity_id)]
             IN  [table[i] EXCEPT !.position = server_entity.position,
                                  !.rotation = server_entity.rotation]
        ELSE table[i]]

\* network_reconcile_state; each "State mismatch" line it prints is
\* recorded with the table index of the entity
network_reconcile_state ==
    /\ ~crashed
    /\ Proceeds("network_reconcile_state", is_server, is_connected)
    /\ entities' = Reconciled(entities)
    /\ event' = [op |-> "reconcile",
                 corrected |-> SelectSeq([i \in 1..Len(entities) |-> i],
                                         LAMBDA i : i \in Mismatched(entities)),
                 before |-> entities]
    /\ Runs(UpdateThread, UpdateLocking)
    /\ UNCHANGED <<is_server, is_connected, players, snapshots, snapshot_head,
                   snapshot_counter, next_send_sequence,
                   last_received_sequence, packets_sent, packets_received,
                   packets_lost, bytes_sent, bytes_received, packet_loss_rate,
                   now, call, wire, crashed, assigned, peer_stream,
                   streams_in_order, gap_scenario, authoritative,
                   sent_packets, last_packet_time, network_ticks, lifecycle>>

\* now - entity->last_update > 1000 on uint32_t
Stale(time, last_update) ==
    \/ last_update > time
    \/ time - last_update > STALE_AGE

\* alpha of network_interpolate_entities times interpolation_time:
\* (now - last_update) / interpolation_time clamped to [0, 1]
InterpolationAlpha(time, entity) ==
    IF time - entity.last_update > entity.interpolation_time
    THEN entity.interpolation_time
    ELSE IF time - entity.last_update < 0 THEN 0
    ELSE time - entity.last_update

\* table indices for which network_interpolate_entities computes alpha
Interpolated(table, time) ==
    {i \in 1..Len(table) :
        /\ table[i].owner_id # local_player_id
        /\ ~Stale(time, table[i].last_update)
        /\ table[i].interpolation_time > 0}

\* network_interpolate_entities: alpha is computed and dropped, no field of
\* an entity is written
network_interpolate_entities ==
    /\ ~crashed
    /\ Proceeds("network_interpolate_entities", is_server, is_connected)
    /\ entities' = entities
    /\ event' = [op |-> "interpolate",
                 blended |-> Interpolated(entities, now),
                 alpha |-> [i \in Interpolated(entities, now) |->
                               InterpolationAlpha(now, entities[i])],
                 before |-> entities]
    /\ Runs(UpdateThread, UpdateLocking)
    /\ UNCHANGED <<is_server, is_connected, players, snapshots, snapshot_head,
                   snapshot_counter, next_send_sequence,
                   last_received_sequence, packets_sent, packets_received,
                   packets_lost, bytes_sent, bytes_received, packet_loss_rate,
                   now, call, wire, crashed, assigned, peer_stream,
                   streams_in_order, gap_scenario, authoritative,
                   sent_packets, last_packet_time, network_ticks, lifecycle>>

\* local prediction: the client advances an entity it owns by its own input
PredictMove(i, step) ==
    /\ ~crashed
    /\ ~is_server
    /\ i \in 1..Len(entities)
    /\ entities[i].owner_id = local_player_id
    /\ entities[i].position.x + step[1] <= MaxCoord
    /\ entities[i].rotation.x + step[2] <= MaxTurn
    /\ entities' = [entities EXCEPT
                       ![i].position.x = @ + step[1],
                       ![i].rotation.x = @ + step[2]]
    /\ event' = [op |-> "predict", index |-> i]
    /\ Runs(UpdateThread, UpdateLocking)
    /\ UNCHANGED <<is_server, is_connected, players, snapshots, snapshot_head,
                   snapshot_counter, next_send_sequence,
                   last_received_sequence, packets_sent, packets_received,
                   packets_lost, bytes_sent, bytes_received, packet_loss_rate,
                   now, call, wire, crashed, assigned, peer_stream,
                   streams_in_order, gap_scenario, authoritative,
                   sent_packets, last_packet_time, network_ticks, lifecycle>>

\* no datagram arrives for longer than STALE_AGE seconds
Quiet ==
    /\ ~crashed
    /\ now <= MaxTime
    /\ now' = now + STALE_AGE + 1
    /\ event' = [op |-> "quiet"]
    /\ NoAccess
    /\ UNCHANGED <<is_server, is_connected, players, entities, snapshots,
                   snapshot_head, snapshot_counter, next_send_sequence,
                   last_received_sequence, packets_sent, packets_received,
                   packets_lost, bytes_sent, bytes_received, packet_loss_rate,
                   call, wire, crashed, assigned, peer_stream,
                   streams_in_order, gap_scenario, authoritative,
                   sent_packets, last_packet_time, network_ticks, lifecycle>>

----------------------------------------------------------------------------
(* network_manager_start, the three threads, network_manager_stop          *)

SNAPSHOT_INTERVAL == 2

\* ticks of the send thread in one run
MaxTicks == 3

\* a control datagram (CONNECT, DISCONNECT) goes out with the next sequence
\* number, to the server or to every connected player
ControlSend(ptype) ==
    LET c == [ptype |-> ptype, sequence |-> next_send_sequence,
              size |-> HEADER_SIZE]
        dests == Destinations(players, is_server, ptype)
    IN  /\ next_send_sequence' = NextSendSequence(next_send_sequence)
        /\ assigned' = Append(assigned, next_send_sequence)
        /\ wire' = wire \o Datagrams(c, dests)
        /\ packets_sent' = packets_sent + 1
        /\ bytes_sent' = bytes_sent + HEADER_SIZE
        /\ access' = {[what |-> "sendto", under |-> held["game"],
                       thread |-> "game"] : i \in 1..Len(dests)}
        /\ UNCHANGED <<held, aside>>

\* network_manager_start: the flag is set before the threads are created;
\* a client sends its connection request
network_manager_start ==
    /\ ~crashed
    /\ caller = "created"
    /\ network_active' = TRUE
    /\ thread' = [th \in ManagerThreads |-> "running"]
    /\ caller' = "started"
    /\ event' = [op |-> "start"]
    /\ IF is_server
       THEN /\ NoAccess
            /\ UNCHANGED <<next_send_sequence, assigned, wire, packets_sent,
                           bytes_sent>>
       ELSE ControlSend(PACKET_CONNECT)
    /\ UNCHANGED <<is_server, is_connected, players, entities, snapshots,
                   snapshot_head, snapshot_counter, last_received_sequence,
                   packets_received, packets_lost, bytes_received,
                   packet_loss_rate, now, call, crashed, peer_stream,
                   streams_in_order, gap_scenario, authoritative,
                   sent_packets, last_packet_time, udp_socket, network_ticks>>

\* (variant: the loop does not look at the flag)
LoopContinues_Always(active) == TRUE

\* while (manager->network_active)
LoopContinues(active) == active

\* an iteration of network_receive_thread in which recvfrom returns a
\* datagram
ReceiveIteration(pkt) ==
    /\ thread[ReceiveThread] = "running"
    /\ LoopContinues(network_active)
    /\ Receive(pkt)

\* (variant: the thread returns after an error)
AfterReceiveError_Exit(at) == "exited"

\* perror("Receive error"), then usleep and the next iteration
AfterReceiveError(at) == at

\* an iteration of network_receive_thread in which recvfrom fails with an
\* error other than EAGAIN / EWOULDBLOCK
ReceiveError ==
    /\ ~crashed
    /\ thread[ReceiveThread] = "running"
    /\ LoopContinues(network_active)
    /\ thread' = [thread EXCEPT
                     ![ReceiveThread] = AfterReceiveError(thread[ReceiveThread])]
    /\ event' = [op |-> "recv_error"]
    /\ Runs(ReceiveThread, <<Use("recvfrom")>>)
    /\ UNCHANGED <<is_server, is_connected, players, entities, snapshots,
                   snapshot_head, snapshot_counter, next_send_sequence,
                   last_received_sequence, packets_sent, packets_received,
                   packets_lost, bytes_sent, bytes_received, packet_loss_rate,
                   now, call, wire, crashed, assigned, peer_stream,
                   streams_in_order, gap_scenario, authoritative,
                   sent_packets, last_packet_time, network_active,
                   udp_socket, caller,
                   network_ticks>>

\* network_send_client_input: the client's input goes to the server as an
\* INPUT datagram
network_send_client_input(t) ==
    /\ ~crashed
    /\ call[t] = Idle
    /\ Len(assigned) < MaxSends
    /\ ~is_server
    /\ TakeSequence(t, PACKET_INPUT, ENTITY_UPDATE_SIZE)
    /\ Runs(t, SendLocking)
    /\ UNCHANGED <<is_server, is_connected, players, entities, snapshots,
                   snapshot_head, snapshot_counter, last_received_sequence,
                   packets_sent, packets_received, packets_lost, bytes_sent,
                   bytes_received, packet_loss_rate, now, wire, crashed,
                   peer_stream, streams_in_order, gap_scenario,
                   authoritative, sent_packets, last_packet_time, lifecycle>>

\* an iteration of network_send_thread in which the tick has elapsed: a
\* server builds a snapshot, a client its input; the sendto calls follow
\* as Transmit.  network_send_reliable_retries and network_send_ping are
\* the steps Retry and KeepAlive.
NetworkTick ==
    /\ thread[SendThread] = "running"
    /\ LoopContinues(network_active)
    /\ network_ticks < MaxTicks
    /\ network_ticks' = network_ticks + 1
    /\ IF is_server
       THEN SnapshotBuild(SendThread)
       ELSE network_send_client_input(SendThread)

\* an iteration of network_update_thread: the client recomputes the
\* interpolated poses and attempts reconciliation
UpdateIteration ==
    /\ thread[UpdateThread] = "running"
    /\ LoopContinues(network_active)
    /\ \/ network_interpolate_entities
       \/ network_reconcile_state

\* the loop condition of a thread fails and the thread returns; the send
\* thread is at its loop condition when no send is under way
ThreadExit(th) ==
    /\ thread[th] = "running"
    /\ th = SendThread => call[th] = Idle
    /\ ~LoopContinues(network_active)
    /\ thread' = [thread EXCEPT ![th] = "exited"]
    /\ event' = [op |-> "exit", thread |-> th]
    /\ NoAccess
    /\ UNCHANGED <<is_server, is_connected, players, entities, snapshots,
                   snapshot_head, snapshot_counter, next_send_sequence,
                   last_received_sequence, packets_sent, packets_received,
                   packets_lost, bytes_sent, bytes_received, packet_loss_rate,
                   now, call, wire, crashed, assigned, peer_stream,
                   streams_in_order, gap_scenario, authoritative,
                   sent_packets, last_packet_time, network_active,
                   udp_socket, caller,
                   network_ticks>>

\* network_manager_stop up to the first pthread_join: the flag is cleared
\* and the disconnect notification sent
StopSignal ==
    /\ caller = "started"
    /\ network_active' = FALSE
    /\ caller' = "stopping"
    /\ event' = [op |-> "stop"]
    /\ ControlSend(PACKET_DISCONNECT)
    /\ UNCHANGED <<is_server, is_connected, players, entities, snapshots,
                   snapshot_head, snapshot_counter, last_received_sequence,
                   packets_received, packets_lost, bytes_received,
                   packet_loss_rate, now, call, crashed, peer_stream,
                   streams_in_order, gap_scenario, authoritative,
                   sent_packets, last_packet_time, thread, udp_socket,
                   network_ticks>>

\* the order of the pthread_join calls
JoinOrder == <<ReceiveThread, SendThread, UpdateThread>>

\* pthread_join returns once the thread has returned
Join(n) ==
    /\ caller = "stopping"
    /\ \A k \in 1..(n - 1) : thread[JoinOrder[k]] = "joined"
    /\ thread[JoinOrder[n]] = "exited"
    /\ thread' = [thread EXCEPT ![JoinOrder[n]] = "joined"]
    /\ event' = [op |-> "join", thread |-> JoinOrder[n]]
    /\ NoAccess
    /\ UNCHANGED <<is_server, is_connected, players, entities, snapshots,
                   snapshot_head, snapshot_counter, next_send_sequence,
                   last_received_sequence, packets_sent, packets_received,
                   packets_lost, bytes_sent, bytes_received, packet_loss_rate,
                   now, call, wire, crashed, assigned, peer_stream,
                   streams_in_order, gap_scenario, authoritative,
                   sent_packets, last_packet_time, network_active,
                   udp_socket, caller,
                   network_ticks>>

\* (variant: close is not preceded by the joins)
Joined_Unawaited(at) == TRUE

\* the three pthread_join calls before close have returned
Joined(at) == \A th \in ManagerThreads : at[th] = "joined"

\* close(manager->udp_socket), and network_manager_stop returns
Close ==
    /\ caller = "stopping"
    /\ Joined(thread)
    /\ udp_socket' = "closed"
    /\ caller' = "stopped"
    /\ event' = [op |-> "close"]
    /\ NoAccess
    /\ UNCHANGED <<is_server, is_connected, players, entities, snapshots,
                   snapshot_head, snapshot_counter, next_send_sequence,
                   last_received_sequence, packets_sent, packets_received,
                   packets_lost, bytes_sent, bytes_received, packet_loss_rate,
                   now, call, wire, crashed, assigned, peer_stream,
                   streams_in_order, gap_scenario, authoritative,
                   sent_packets, last_packet_time, network_active, thread,
                   network_ticks>>

----------------------------------------------------------------------------
(* Reliable messages: sent_packets, acknowledgment, retransmission         *)

PACKET_RPC == 9

\* sizeof(RPCMessage)
SIZEOF_RPC_MESSAGE == 4 + 4 + 4 + 64 + 256 + 2 + 1 + 1 + 8

\* the configured maximum reliable-retry count
MaxRetries == 2
\* reliable messages sent in one run
MaxReliable == 2

\* seconds without acknowledgment after which a reliable packet is due
RetryTimeout == 1

\* the ReliablePacket kept for a reliable message just sent
ReliablePacket(sequence, ptype, time) ==
    [sequence |-> sequence, packet_type |-> ptype, send_time |-> time,
     acked |-> FALSE, retry_count |-> 0]

\* network_send_rpc with reliable set, up to the serialized packet: the
\* message takes the next sequence number and is kept in sent_packets
network_send_rpc(t) ==
    /\ ~crashed
    /\ t \in AppThreads
    /\ call[t] = Idle
    /\ Len(assigned) < MaxReliable
    /\ TakeSequence(t, PACKET_RPC, HEADER_SIZE + SIZEOF_RPC_MESSAGE)
    /\ sent_packets' = Append(sent_packets,
                              ReliablePacket(next_send_sequence, PACKET_RPC,
                                             now))
    /\ Runs(t, SendLocking)
    /\ UNCHANGED <<is_server, is_connected, players, entities, snapshots,
                   snapshot_head, snapshot_counter, last_received_sequence,
                   packets_sent, packets_received, packets_lost, bytes_sent,
                   bytes_received, packet_loss_rate, now, wire, crashed,
                   peer_stream, streams_in_order, gap_scenario,
                   authoritative, last_packet_time, network_ticks,
                   lifecycle>>

\* an acknowledgment of a sequence number arrives: its packet is marked
Acknowledge(sequence) ==
    /\ ~crashed
    /\ \E i \in 1..Len(sent_packets) :
          sent_packets[i].sequence = sequence /\ ~sent_packets[i].acked
    /\ sent_packets' =
          [i \in 1..Len(sent_packets) |->
              IF sent_packets[i].sequence = sequence
              THEN [sent_packets[i] EXCEPT !.acked = TRUE]
              ELSE sent_packets[i]]
    /\ event' = [op |-> "ack", sequence |-> sequence]
    /\ Runs(ReceiveThread,
            <<Use("recvfrom"), Lock(network_mutex), Use("sent_packets"),
              Unlock(network_mutex)>>)
    /\ UNCHANGED <<is_server, is_connected, players, entities, snapshots,
                   snapshot_head, snapshot_counter, next_send_sequence,
                   last_received_sequence, packets_sent, packets_received,
                   packets_lost, bytes_sent, bytes_received, packet_loss_rate,
                   now, call, wire, crashed, assigned, peer_stream,
                   streams_in_order, gap_scenario, authoritative,
                   last_packet_time, network_ticks,
                   lifecycle>>

\* an unacknowledged packet whose timeout has passed
Due(packet, time) ==
    /\ ~packet.acked
    /\ time - packet.send_time >= RetryTimeout

\* (variant: the retry count is not looked at)
Exhausted_Never(packet) == FALSE

\* the packet has been retransmitted the maximum number of times
Exhausted(packet) == packet.retry_count >= MaxRetries

\* the packets one call of network_send_reliable_retries sends again
Retransmitted(queue, time) ==
    SelectSeq(queue, LAMBDA q : Due(q, time) /\ ~Exhausted(q))

\* the packets one call of network_send_reliable_retries gives up
GivenUp(queue, time) ==
    SelectSeq(queue, LAMBDA q : Due(q, time) /\ Exhausted(q))

\* sent_packets after the call: a packet sent again counts the retry and
\* restarts its timeout, a packet given up leaves the queue
Retried(queue, time) ==
    LET kept == SelectSeq(queue, LAMBDA q : ~(Due(q, time) /\ Exhausted(q)))
    IN  [i \in 1..Len(kept) |->
            IF Due(kept[i], time)
            THEN [kept[i] EXCEPT !.retry_count = @ + 1, !.send_time = time]
            ELSE kept[i]]

\* the datagrams of the packets sent again, each to every destination
RECURSIVE Resent(_, _)
Resent(queue, dests) ==
    IF queue = <<>> THEN <<>>
    ELSE Datagrams([ptype |-> Head(queue).packet_type,
                    sequence |-> Head(queue).sequence,
                    size |-> HEADER_SIZE + SIZEOF_RPC_MESSAGE], dests)
         \o Resent(Tail(queue), dests)

\* network_send_reliable_retries, called by the send thread on its tick:
\* every due packet is sent again or, its retries used up, given up with
\* the peer reported unreachable
network_send_reliable_retries ==
    /\ ~crashed
    /\ \E i \in 1..Len(sent_packets) : Due(sent_packets[i], now)
    /\ LET again == Retransmitted(sent_packets, now)
           gone == GivenUp(sent_packets, now)
           dests == Destinations(players, is_server, PACKET_RPC)
       IN  /\ wire' = wire \o Resent(again, dests)
           /\ packets_sent' = packets_sent + Len(again)
           /\ bytes_sent' = bytes_sent
                            + Len(again) * (HEADER_SIZE + SIZEOF_RPC_MESSAGE)
           /\ sent_packets' = Retried(sent_packets, now)
           /\ event' = [op |-> "retries",
                        unreachable |->
                            {gone[i].sequence : i \in 1..Len(gone)}]
           /\ Runs(SendThread,
                   <<Lock(network_mutex), Use("sent_packets"),
                     Unlock(network_mutex)>>
                   \o (IF again # <<>> /\ dests # <<>>
                       THEN <<Use("sendto")>> ELSE <<>>))
    /\ UNCHANGED <<is_server, is_connected, players, entities, snapshots,
                   snapshot_head, snapshot_counter, next_send_sequence,
                   last_received_sequence, packets_received, packets_lost,
                   bytes_received, packet_loss_rate, now, call, crashed,
                   assigned, peer_stream, streams_in_order, gap_scenario,
                   authoritative, last_packet_time, network_ticks,
                   lifecycle>>

----------------------------------------------------------------------------
(* Liveness of peers: keepalive and eviction                               *)

PACKET_PING == 10

\* seconds without a datagram after which a peer counts as dead: several
\* keepalive intervals of one second
LivenessTimeout == 2

\* (variant: no peer is ever found dead)
Dead_Never(table, times, i, time) == FALSE

\* isAlive fails for slot i: the player is connected and no datagram of
\* its peer has arrived within the timeout
Dead(table, times, i, time) ==
    /\ table[i].connected
    /\ time - times[i] > LivenessTimeout

\* the slots the server finds dead
DeadSlots(table, times, time) ==
    {i \in 1..Len(table) : Dead(table, times, i, time)}

\* the registry after the dead peers are removed
Evicted(table, dead) ==
    [i \in 1..Len(table) |->
        IF i \in dead THEN [table[i] EXCEPT !.connected = FALSE]
        ELSE table[i]]

\* the entity table after the entities of the dead peers are released to
\* the server, owner id 0
Released(table, owners) ==
    [i \in 1..Len(table) |->
        IF table[i].owner_id \in owners
        THEN [table[i] EXCEPT !.owner_id = 0]
        ELSE table[i]]

\* the server evicts the peers that are dead
EvictDead ==
    /\ ~crashed
    /\ is_server
    /\ DeadSlots(players, last_packet_time, now) # {}
    /\ LET dead == DeadSlots(players, last_packet_time, now)
       IN  /\ players' = Evicted(players, dead)
           /\ entities' = Released(entities,
                                   {players[i].player_id : i \in dead})
           /\ event' = [op |-> "evict", slots |-> dead]
    /\ Runs(SendThread,
            <<Lock(player_mutex), Use("players"), Unlock(player_mutex),
              Lock(entity_mutex), Use("entities"), Unlock(entity_mutex)>>)
    /\ UNCHANGED <<is_server, is_connected, snapshots, snapshot_head,
                   snapshot_counter, next_send_sequence,
                   last_received_sequence, packets_sent, packets_received,
                   packets_lost, bytes_sent, bytes_received, packet_loss_rate,
                   now, call, wire, crashed, assigned, peer_stream,
                   streams_in_order, gap_scenario, authoritative,
                   sent_packets, last_packet_time, network_ticks, lifecycle>>

----------------------------------------------------------------------------
(* network_manager_create, and the protocol as a whole                     *)

EmptySnapshot ==
    [snapshot_id |-> 0, timestamp |-> 0, entities |-> <<>>,
     player_count |-> 0, player_ids |-> {}]

\* a NULL pointer
NULL == 0

MAX_MOBILE_CLIENTS == 50

\* create_mobile_extension: every slot NULL, the counters zeroed
MobileCreated ==
    /\ clients = <<>>
    /\ client_count = 0
    /\ total_connections = 0
    /\ client_memory = <<>>

\* threads that use the content cache
CacheThreads == {"render", "upload"}

LOCAL_CACHE_SIZE == 100

\* a CacheEntry: its content, when it was last used and when it expires
CacheEntry(id, used, expiry) ==
    [content_id |-> id, last_access |-> used, expiry_time |-> expiry]

\* array[slot] = value, the array kept up to its last written slot
Stored(array, slot, value) ==
    IF slot <= Len(array) THEN [array EXCEPT ![slot] = value]
    ELSE Append(array, value)

\* what a caller holds that has no entry of the cache in hand
NoEntry == [slot |-> NULL, content_id |-> NULL]

\* create_cloud_manager: cache_size = 0
CloudCreated ==
    /\ cache = <<>>
    /\ cache_size = 0
    /\ found = [t \in CacheThreads |-> NoEntry]

\* no thread is inside a function
LocksFree == pending = [t \in Contexts |-> <<>>]

Aside == LocksFree /\ MobileCreated /\ CloudCreated

\* next_send_sequence of a manager that has sent this many datagrams
SentBefore == {0, U16 - 1}

\* what is known of the server's state of each entity of a table
Known(table) ==
    [id \in {table[i].entity_id : i \in 1..Len(table)} |->
        LET e == table[CHOOSE i \in 1..Len(table) : table[i].entity_id = id]
        IN  [position |-> e.position, rotation |-> e.rotation,
             prior |-> e.position]]

ManagerCreated(server, sent, table, registry) ==
    /\ is_server = server
    /\ is_connected = FALSE
    /\ players = registry
    /\ entities = table
    /\ snapshots = [i \in 0..(SNAPSHOT_RING - 1) |-> EmptySnapshot]
    /\ snapshot_head = 0
    /\ snapshot_counter = 0
    /\ next_send_sequence = sent
    /\ last_received_sequence = 0
    /\ packets_sent = 0
    /\ packets_received = 0
    /\ packets_lost = 0
    /\ bytes_sent = 0
    /\ bytes_received = 0
    /\ packet_loss_rate = 0
    /\ now = 0
    /\ call = [t \in Threads |-> Idle]
    /\ wire = <<>>
    /\ crashed = FALSE
    /\ assigned = <<>>
    /\ event = [op |-> "create"]
    /\ peer_stream = [p \in Peers \cup {ServerAddress} |-> 0]
    /\ streams_in_order = TRUE
    /\ gap_scenario = 0
    /\ authoritative = Known(table)
    /\ sent_packets = <<>>
    /\ last_packet_time = [i \in 1..Len(registry) |-> 0]
    /\ network_active = FALSE
    /\ thread = [th \in ManagerThreads |-> "none"]
    /\ udp_socket = "open"
    /\ caller = "created"
    /\ network_ticks = 0
    /\ held = [t \in Contexts |-> {}]
    /\ access = {}

CreatedWith(server, sent, table, registry) ==
    /\ ManagerCreated(server, sent, table, registry)
    /\ Aside

Created(server, sent, table) == CreatedWith(server, sent, table, <<>>)

Init == \E server \in BOOLEAN : Created(server, 0, <<>>)

\* the receive context: datagrams arrive and are processed
Next ==
    \/ \E pkt \in Packets : Receive(pkt)

Spec == Init /\ [][Next]_vars

\* the send contexts: the send thread and the application's threads call
\* the send operations while peers connect
InitSend ==
    \E server \in BOOLEAN, sent \in SentBefore : Created(server, sent, <<>>)

NextSend ==
    \/ \E pkt \in ConnectPackets \cup DisconnectPackets : Receive(pkt)
    \/ \E t \in Threads : EntityUpdateBegin(t)
    \/ \E t \in Threads, n \in VoiceSizes : VoiceBegin(t, n)
    \/ \E t \in Threads : SnapshotBegin(t)
    \/ \E t \in Threads : Transmit(t)
    \/ network_manager_connect

SpecSend == InitSend /\ [][NextSend]_vars

\* the audio thread of a client hands frames of these sizes to
\* network_send_voice: data_size is a uint16_t the caller chooses
VoiceLoads ==
    {160, AUDIO_DATA_SIZE, AUDIO_DATA_SIZE + 1,
     MAX_PACKET_SIZE - HEADER_SIZE - VOICE_HEADER_SIZE + 1}

InitVoice == \E sent \in SentBefore : Created(FALSE, sent, <<>>)

NextVoice ==
    \/ network_manager_connect
    \/ \E t \in Threads, n \in VoiceLoads : VoiceBegin(t, n)
    \/ \E t \in Threads : Transmit(t)
    \/ \E pkt \in TouchPackets : packets_received < MaxTouch /\ Receive(pkt)

SpecVoice == InitVoice /\ [][NextVoice]_vars

\* the dispatch switch: datagrams of every type arrive
InitDispatch == \E server \in BOOLEAN : Created(server, 0, <<>>)

NextDispatch ==
    \/ \E pkt \in TypedPackets : packets_received < MaxTouch /\ Receive(pkt)
    \/ Tick

SpecDispatch == InitDispatch /\ [][NextDispatch]_vars

\* a manager is started, its three threads run, and it is stopped
InitLife == \E server \in BOOLEAN : Created(server, 0, <<>>)

NextLife ==
    \/ network_manager_start
    \/ \E pkt \in ConnectPackets :
          packets_received < MaxTouch /\ ReceiveIteration(pkt)
    \/ ReceiveError
    \/ NetworkTick
    \/ Transmit(SendThread)
    \/ UpdateIteration
    \/ \E th \in ManagerThreads : ThreadExit(th)
    \/ StopSignal
    \/ \E n \in 1..Len(JoinOrder) : Join(n)
    \/ Close

SpecLife == InitLife /\ [][NextLife]_vars

\* the scheduler lets every thread that can run take its next step
FairLife ==
    /\ \A th \in ManagerThreads : WF_vars(ThreadExit(th))
    /\ WF_vars(Transmit(SendThread))
    /\ \A n \in 1..Len(JoinOrder) : WF_vars(Join(n))
    /\ WF_vars(Close)

SpecLifeFair == InitLife /\ [][NextLife]_vars /\ FairLife

\* the snapshot tick of a server whose world holds a table of entities,
\* all last updated at time 0
TableSizes == {20, 21, MAX_ENTITIES_PER_PACKET, MAX_ENTITIES_PER_PACKET + 6}

EntityTable(n) ==
    [i \in 1..n |-> [entity_id |-> i, owner_id |-> 0, last_update |-> 0,
                     position |-> Origin, rotation |-> Identity,
                     interpolation_time |-> 0]]

\* a world whose entities were last updated at different times, some of
\* them stamped later than the server's clock reads
StampedSizes == {6}

StampedTable(n) ==
    [i \in 1..n |-> [EntityTable(n)[i] EXCEPT !.last_update = i % 6]]

SnapTables ==
    {EntityTable(n) : n \in TableSizes} \cup
    {StampedTable(n) : n \in StampedSizes}

InitSnap == \E table \in SnapTables : Created(TRUE, 0, table)

NextSnap ==
    \/ \E pkt \in TouchPackets : packets_received < MaxTouch /\ Receive(pkt)
    \/ \E t \in Threads : Len(assigned) < MaxSnapshots /\ SnapshotBegin(t)
    \/ \E t \in Threads : Transmit(t)
    \/ Tick

SpecSnap == InitSnap /\ [][NextSnap]_vars

\* snapshot ticks a server has run before the ring is observed
RingStarts == {0, SNAPSHOT_RING - 2, SNAPSHOT_RING, 2 * SNAPSHOT_RING - 1}

\* one peer has connected to the server
OnePeer == <<[player_id |-> 1, address |-> "A", connected |-> TRUE]>>

\* the snapshot network_send_snapshot builds from a table and a registry
SnapshotOf(id, time, table, registry) ==
    [snapshot_id |-> id, timestamp |-> time,
     entities |-> SnapshotEntities(table, 1, <<>>, time),
     player_count |-> Len(registry),
     player_ids |-> PlayerBitmask(registry)]

\* the ring after n snapshots of an unchanging world, all built at time 0
RingAfter(n, table, registry) ==
    [slot \in 0..(SNAPSHOT_RING - 1) |->
        LET ids == {id \in 0..(n - 1) : id % SNAPSHOT_RING = slot}
        IN  IF ids = {} THEN EmptySnapshot
            ELSE SnapshotOf(CHOOSE id \in ids : \A other \in ids : other <= id,
                            0, table, registry)]

\* a server that has run n snapshot ticks since network_manager_create
AfterSnapshots(n, table, registry) ==
    LET size == SnapshotPacketSize(Len(SnapshotEntities(table, 1, <<>>, 0)))
        sent == n * Cardinality(PlayerBitmask(registry))
    IN  /\ is_server = TRUE
        /\ is_connected = FALSE
        /\ players = registry
        /\ entities = table
        /\ snapshots = RingAfter(n, table, registry)
        /\ snapshot_head = n % SNAPSHOT_RING
        /\ snapshot_counter = n
        /\ next_send_sequence = n % U16
        /\ last_received_sequence = 0
        /\ packets_sent = sent
        /\ packets_received = 0
        /\ packets_lost = 0
        /\ bytes_sent = sent * size
        /\ bytes_received = 0
        /\ packet_loss_rate = 0
        /\ now = 0
        /\ call = [t \in Threads |-> Idle]
        /\ wire = <<>>
        /\ crashed = FALSE
        /\ assigned = <<>>
        /\ event = [op |-> "create"]
        /\ peer_stream = [p \in Peers \cup {ServerAddress} |-> 0]
        /\ streams_in_order = TRUE
        /\ gap_scenario = 0
        /\ authoritative = Known(table)
        /\ sent_packets = <<>>
        /\ last_packet_time = [i \in 1..Len(registry) |-> 0]
        /\ network_active = FALSE
        /\ thread = [th \in ManagerThreads |-> "none"]
        /\ udp_socket = "open"
        /\ caller = "created"
        /\ network_ticks = 0
        /\ held = [t \in Contexts |-> {}]
        /\ access = {}
        /\ Aside

\* worlds whose snapshot fits the packet buffer, and one that does not
RingTables == {EntityTable(1), EntityTable(2), EntityTable(21)}

InitRing ==
    \E n \in RingStarts, table \in RingTables :
        AfterSnapshots(n, table, OnePeer)

NextRing ==
    \/ SnapshotBegin(SendThread)
    \/ TransmitSnapshot(SendThread)
    \/ Tick

SpecRing == InitRing /\ [][NextRing]_vars

\* every guarded operation is called in either role, connected or not
InitCalls ==
    \E server \in BOOLEAN :
        CreatedWith(server, 0, EntityTable(1), IF server THEN OnePeer ELSE <<>>)

NextCalls ==
    \/ network_manager_start
    \/ network_manager_connect
    \/ \E pkt \in ConnectPackets \cup DisconnectPackets :
          packets_received < MaxTouch /\ Receive(pkt)
    \/ \E t \in AppThreads : EntityUpdateBegin(t)
    \/ \E t \in AppThreads : EarlyReturn(t, "network_send_entity_update")
    \/ \E n \in VoiceSizes : VoiceBegin("audio", n)
    \/ EarlyReturn("audio", "network_send_voice")
    \/ SnapshotBegin(SendThread)
    \/ EarlyReturn(SendThread, "network_send_snapshot")
    \/ \E t \in Threads : Transmit(t)
    \/ network_reconcile_state
    \/ EarlyReturn(UpdateThread, "network_reconcile_state")
    \/ network_interpolate_entities
    \/ EarlyReturn(UpdateThread, "network_interpolate_entities")

SpecCalls == InitCalls /\ [][NextCalls]_vars

\* the mutexes step by step: every thread goes through its functions one
\* lock, unlock or use at a time
InitLocks ==
    \E server \in BOOLEAN :
        CreatedWith(server, 0, <<>>, IF server THEN OnePeer ELSE <<>>)

\* datagrams that take the receive thread through each kind of handler
LockPackets ==
    {pkt \in TypedPackets :
        /\ pkt.sequence = 1
        /\ pkt.ptype \in {PACKET_CONNECT, PACKET_ENTITY_UPDATE, PACKET_INPUT,
                          PACKET_PING}}
    \cup ShortPackets

\* a thread calls an operation whose precondition holds
Calls(fn) ==
    /\ Proceeds(fn, is_server, is_connected)
    /\ Enters(RunsOn(fn),
              Program(fn, is_server,
                      Destinations(players, is_server,
                                   IF fn = "network_send_voice"
                                   THEN PACKET_VOICE_DATA
                                   ELSE PACKET_SNAPSHOT)))

\* recvfrom returns a datagram to the receive thread
Arrives(pkt) ==
    Enters(ReceiveThread, ReceiveLocking(HeaderAccepted(pkt), pkt.ptype))

NextLocks ==
    \/ network_manager_connect
    \/ \E fn \in Guarded : Calls(fn)
    \/ \E pkt \in LockPackets : Arrives(pkt)
    \/ \E t \in Contexts : LockStep(t)

SpecLocks == InitLocks /\ [][NextLocks]_vars

\* a thread that is inside a function runs on, and a thread waiting for a
\* mutex that is released again and again gets it
FairLocks == \A t \in Contexts : SF_vars(LockStep(t))

SpecLocksFair == SpecLocks /\ FairLocks

\* connections the extension has seen, all ended, when it is observed
MobileStarts == {0, MAX_MOBILE_CLIENTS - 2}

\* a MobileClient as client_accept_thread fills it in
NewClient == [active |-> TRUE, authenticated |-> FALSE, freed |-> FALSE]

\* the clients whose record has not been freed
Live == {id \in 1..Len(client_memory) : ~client_memory[id].freed}

\* one iteration of client_accept_thread in which accept returned a
\* socket: the connection is turned away when client_count has reached
\* MAX_MOBILE_CLIENTS, else the client takes the first NULL slot and its
\* handler thread is started
client_accept_thread ==
    /\ ~crashed
    /\ \E start \in MobileStarts :
          Len(client_memory) \in start..(start + MaxConnections - 1)
    /\ IF client_count >= MAX_MOBILE_CLIENTS
       THEN /\ event' = [op |-> "reject", live |-> Cardinality(Live)]
            /\ UNCHANGED mobile
       ELSE LET client == Len(client_memory) + 1
                free == {i \in 1..MAX_MOBILE_CLIENTS :
                            i > Len(clients) \/ clients[i] = NULL}
                slot == CHOOSE i \in free : \A k \in free : i <= k
            IN  /\ client_memory' = Append(client_memory, NewClient)
                /\ IF free = {}
                   THEN UNCHANGED <<clients, client_count, total_connections>>
                   ELSE /\ clients' = Stored(clients, slot, client)
                        /\ client_count' = client_count + 1
                        /\ total_connections' = total_connections + 1
                /\ event' = [op |-> "accept", client |-> client]
    /\ UNCHANGED <<manager, now, crashed, cloud>>

\* client_handler_thread reads an AUTH command of its client
Authenticate(client) ==
    /\ ~crashed
    /\ client \in Live
    /\ ~client_memory[client].authenticated
    /\ client_memory' =
          [client_memory EXCEPT ![client].authenticated = TRUE]
    /\ event' = [op |-> "auth", client |-> client]
    /\ UNCHANGED <<manager, now, crashed, cloud, clients, client_count,
                   total_connections>>

\* the end of client_handler_thread, after a disconnect, an error or a
\* heartbeat timeout: active is cleared, the socket closed and the record
\* freed; the slot of the client and client_count are left as they are
client_handler_thread(client) ==
    /\ ~crashed
    /\ client \in Live
    /\ client_memory' =
          [client_memory EXCEPT ![client].active = FALSE,
                                ![client].freed = TRUE]
    /\ event' = [op |-> "leave", client |-> client]
    /\ UNCHANGED <<manager, now, crashed, cloud, clients, client_count,
                   total_connections>>

\* one frame of video_stream_thread: every slot that is not NULL is
\* dereferenced.  Reading authenticated and active of a freed record has
\* no defined result: the frame is sent to it or not, or the process dies.
video_stream_thread ==
    /\ ~crashed
    /\ client_count # 0
    /\ LET read == {clients[i] : i \in 1..Len(clients)} \ {NULL}
           dangling == {id \in read : client_memory[id].freed}
           streamed == {id \in read \ dangling :
                           /\ client_memory[id].authenticated
                           /\ client_memory[id].active}
       IN  /\ \E abort \in IF dangling = {} THEN {FALSE} ELSE BOOLEAN :
                 crashed' = abort
           /\ \E garbage \in IF dangling = {} THEN {{}} ELSE {{}, dangling} :
                 event' = [op |-> "stream", read |-> read,
                           dangling |-> dangling,
                           sent |-> streamed \cup garbage]
    /\ UNCHANGED <<manager, now, mobile, cloud>>

\* the extension after n clients have connected and left again
AfterConnections(n) ==
    /\ clients = [i \in 1..n |-> i]
    /\ client_count = n
    /\ total_connections = n
    /\ client_memory =
          [id \in 1..n |-> [active |-> FALSE, authenticated |-> FALSE,
                            freed |-> TRUE]]

InitMobile ==
    \E n \in MobileStarts :
        /\ ManagerCreated(FALSE, 0, <<>>, <<>>)
        /\ LocksFree
        /\ AfterConnections(n)
        /\ CloudCreated

NextMobile ==
    \/ client_accept_thread
    \/ \E client \in 1..Len(client_memory) : Authenticate(client)
    \/ \E client \in 1..Len(client_memory) : client_handler_thread(client)
    \/ video_stream_thread

SpecMobile == InitMobile /\ [][NextMobile]_vars

\* the shift loops of find_in_cache and add_to_cache: the entries after
\* slot i move down by one, the last used slot keeps its bytes
Shifted(table, size, i) ==
    [j \in 1..Len(table) |->
        IF j >= i /\ j < size THEN table[j + 1] ELSE table[j]]

\* the first slot holding the content, NULL if there is none
FirstMatch(table, size, id) ==
    LET hits == {i \in 1..size : table[i].content_id = id}
    IN  IF hits = {} THEN NULL
        ELSE CHOOSE i \in hits : \A k \in hits : i <= k

\* lru_index of add_to_cache: the first slot with the smallest last_access
LruIndex(table, size) ==
    CHOOSE i \in 1..size :
        /\ \A k \in 1..size : table[i].last_access <= table[k].last_access
        /\ \A k \in 1..(i - 1) : table[k].last_access > table[i].last_access

\* time(NULL) > expiry_time
Expired(time, entry) == time > entry.expiry_time

\* find_in_cache, under cache_mutex from the first line to the return: an
\* expired hit is removed and NULL returned, a live hit has last_access
\* set and its address returned
find_in_cache(t, id) ==
    /\ ~crashed
    /\ found[t].slot = NULL
    /\ LET i == FirstMatch(cache, cache_size, id)
           expired == i # NULL /\ Expired(now, cache[i])
       IN  /\ IF i = NULL THEN UNCHANGED <<cache, cache_size, found>>
              ELSE IF expired
              THEN /\ cache' = Shifted(cache, cache_size, i)
                   /\ cache_size' = cache_size - 1
                   /\ UNCHANGED found
              ELSE /\ cache' = [cache EXCEPT ![i].last_access = now]
                   /\ found' = [found EXCEPT ![t] =
                                   [slot |-> i, content_id |-> id]]
                   /\ UNCHANGED cache_size
           /\ event' = [op |-> "find", thread |-> t, content_id |-> id,
                        hit |-> i, expired |-> expired,
                        returned |-> IF expired THEN NULL ELSE i,
                        size_before |-> cache_size]
    /\ UNCHANGED <<manager, now, crashed, mobile>>

\* add_to_cache, under cache_mutex: a full cache loses its least recently
\* used entry, then the new entry is stored after the last one
add_to_cache(entry) ==
    /\ ~crashed
    /\ LET full == cache_size >= LOCAL_CACHE_SIZE
           lru_index == IF full THEN LruIndex(cache, cache_size) ELSE NULL
           kept == IF full THEN Shifted(cache, cache_size, lru_index)
                   ELSE cache
           size == IF full THEN cache_size - 1 ELSE cache_size
       IN  /\ cache' = Stored(kept, size + 1, entry)
           /\ cache_size' = size + 1
           /\ event' = [op |-> "add", full |-> full, evicted |-> lru_index,
                        before |-> cache, size_before |-> cache_size]
    /\ UNCHANGED <<manager, now, crashed, mobile, found>>

\* the caller of find_in_cache reads the entry it was given, after the
\* mutex has been released
UseEntry(t) ==
    /\ ~crashed
    /\ found[t].slot # NULL
    /\ event' = [op |-> "use", thread |-> t,
                 wanted |-> found[t].content_id,
                 got |-> cache[found[t].slot].content_id]
    /\ found' = [found EXCEPT ![t] = NoEntry]
    /\ UNCHANGED <<manager, now, crashed, mobile, cache, cache_size>>

\* entries in the cache when it is observed
CacheStarts == {0, LOCAL_CACHE_SIZE - 1}

\* an expiry time that is not reached
Unexpiring == MaxTime + 1

\* the cache after n contents were added at time 0; the first expires
\* after one second
CacheAfter(n) ==
    /\ cache = [i \in 1..n |->
                  CacheEntry(i, 0, IF i = 1 THEN 1 ELSE Unexpiring)]
    /\ cache_size = n
    /\ found = [t \in CacheThreads |-> NoEntry]

\* contents looked up and contents added on a miss
FindIds == {1, 2, LOCAL_CACHE_SIZE}
AddIds == {LOCAL_CACHE_SIZE, LOCAL_CACHE_SIZE + 1}

InitCloud ==
    \E n \in CacheStarts :
        /\ ManagerCreated(FALSE, 0, <<>>, <<>>)
        /\ LocksFree
        /\ MobileCreated
        /\ CacheAfter(n)

NextCloud ==
    \/ \E t \in CacheThreads, id \in FindIds : find_in_cache(t, id)
    \/ \E id \in AddIds :
          /\ FirstMatch(cache, cache_size, id) = NULL
          /\ add_to_cache(CacheEntry(id, now, Unexpiring))
    \/ \E t \in CacheThreads : UseEntry(t)
    \/ Tick

SpecCloud == InitCloud /\ [][NextCloud]_vars

\* a world of two entities replicated between a server and a client: the
\* server has registered peers A and B, A owns entity 1, entity 2 has
\* owner_id 0, which is also the local_player_id of every manager
Registered ==
    <<[player_id |-> 1, address |-> "A", connected |-> TRUE],
      [player_id |-> 2, address |-> "B", connected |-> TRUE]>>

WorldTable ==
    [i \in 1..2 |-> [entity_id |-> i, owner_id |-> 2 - i, last_update |-> 0,
                     position |-> Origin, rotation |-> Identity,
                     interpolation_time |-> InterpolationWindow]]

Moved == Vector4(FloatScale, 0, 0, 0)

\* A's input that moves entity 1, and the snapshots that reach a client
WorldPackets ==
    {[Packet(METAVERSE_PROTOCOL_VERSION, PACKET_INPUT, 1, ENTITY_UPDATE_SIZE,
             "A", 1) EXCEPT !.position = Moved]}
    \cup {[Packet(METAVERSE_PROTOCOL_VERSION, PACKET_SNAPSHOT, 1,
                  SnapshotPacketSize(1), ServerAddress, 1)
              EXCEPT !.owner_id = 1, !.position = p] : p \in {Origin, Moved}}
    \cup {Packet(METAVERSE_PROTOCOL_VERSION, PACKET_SNAPSHOT, 1,
                 SnapshotPacketSize(1), ServerAddress, 2)}

InitWorld ==
    \E server \in BOOLEAN :
        CreatedWith(server, 0, WorldTable,
                    IF server THEN Registered ELSE <<>>)

NextWorld ==
    \/ \E pkt \in WorldPackets : packets_received < MaxTouch /\ Receive(pkt)
    \/ \E t \in Threads : Len(assigned) < MaxSnapshots /\ SnapshotBegin(t)
    \/ \E t \in Threads : Transmit(t)
    \/ \E i \in 1..2, step \in PredictSteps : PredictMove(i, step)
    \/ network_reconcile_state
    \/ network_interpolate_entities
    \/ Tick
    \/ Quiet

SpecWorld == InitWorld /\ [][NextWorld]_vars

\* the thread of the host application that sends reliable messages
RpcThreads == {"game"}

\* reliable messages of a client, and of a server with registered peers
InitReliable ==
    \E server \in BOOLEAN :
        CreatedWith(server, 0, <<>>, IF server THEN Registered ELSE <<>>)

NextReliable ==
    \/ \E t \in RpcThreads : network_send_rpc(t)
    \/ \E t \in RpcThreads : Transmit(t)
    \/ \E sequence \in 0..(MaxReliable - 1) : Acknowledge(sequence)
    \/ network_send_reliable_retries
    \/ Tick

SpecReliable == InitReliable /\ [][NextReliable]_vars

\* a server with peers A and B registered: B sends keepalives, A, which
\* owns entity 1, has fallen silent
KeepAlives ==
    {Packet(METAVERSE_PROTOCOL_VERSION, PACKET_PING, n, HEADER_SIZE, "B", 0) :
        n \in 1..MaxTouch}

InitEvict == CreatedWith(TRUE, 0, WorldTable, Registered)

NextEvict ==
    \/ \E pkt \in KeepAlives :
          /\ pkt.sequence = ExpectedSequence(last_received_sequence)
          /\ Receive(pkt)
    \/ \E t \in Threads : Len(assigned) < MaxSnapshots /\ SnapshotBegin(t)
    \/ \E t \in Threads : Transmit(t)
    \/ EvictDead
    \/ Tick

SpecEvict == InitEvict /\ [][NextEvict]_vars

\* the send thread is scheduled: the sweep of the registry runs when a
\* peer is dead
SpecEvictFair == InitEvict /\ [][NextEvict]_vars /\ WF_vars(EvictDead)

----------------------------------------------------------------------------
(* Properties                                                              *)

\* the distance of two sequence numbers read as a signed 16-bit number
SignedDelta(sequence, expected) ==
    LET d == (sequence - expected + 65536) % 65536
    IN  IF d >= 32768 THEN d - 65536 ELSE d

\* the last step processed a datagram that passed the header checks
Accepted == event.op = "recv" /\ HeaderAccepted(event.pkt)

\* signed 16-bit distance of that datagram from the expected sequence
DeltaOf == SignedDelta(event.pkt.sequence, ExpectedSequence(event.prev_seq))

\* C1: a datagram whose signed 16-bit distance from the expected sequence
\* is positive, wrap-around included (5 after 65530), is taken as newer: it
\* is dispatched, last_received_sequence becomes its sequence, and the gap
\* is counted as a forward gap.
C1_WrapAroundNewer ==
    (Accepted /\ DeltaOf > 0) =>
        /\ last_received_sequence = event.pkt.sequence
        /\ event.handler = {event.pkt.ptype}
        /\ packets_lost = event.prev_lost + DeltaOf

C1_Witness ==
    /\ Accepted
    /\ event.prev_seq = 65530
    /\ event.pkt.sequence = 5
    /\ last_received_sequence = 5
    /\ event.handler # {}
    /\ packets_lost = event.prev_lost + 10

\* C2: after 1, 2, 4, 5 from a fresh manager packets_lost is 1, and
\* packets_lost grows only by the skipped sequence numbers of a forward gap.
C2_LossOnlyFromForwardGaps ==
    /\ gap_scenario = Len(Scenario) => packets_lost = 1
    /\ event.op = "recv" =>
          packets_lost = event.prev_lost +
                         (IF Accepted /\ DeltaOf > 0 THEN DeltaOf ELSE 0)

\* C3: a duplicate or old datagram (negative signed distance) is dropped:
\* no handler runs and last_received_sequence does not move back.
C3_OldPacketsDropped ==
    (Accepted /\ DeltaOf < 0) =>
        /\ event.handler = {}
        /\ last_received_sequence = event.prev_seq

\* C4: a duplicate or old datagram leaves packets_lost and packet_loss_rate
\* as they were.
C4_RegressionNotCounted ==
    (Accepted /\ DeltaOf < 0) =>
        /\ packets_lost = event.prev_lost
        /\ packet_loss_rate = event.prev_rate

\* C5: on a server, while every peer sends its own stream 1, 2, 3, ... in
\* order, no arrival is counted as loss, however the streams interleave.
C5_PerPeerTracking ==
    (is_server /\ streams_in_order) => packets_lost = 0

\* C6 (as amended): the sequence numbers taken by the send operations are
\* consecutive modulo 65536 in the order they are taken, next_send_sequence
\* is one past the last taken, and no two calls in flight hold the same one.
C6_AssignedConsecutive ==
    /\ \A k \in 2..Len(assigned) :
          assigned[k] = (assigned[k - 1] + 1) % 65536
    /\ Len(assigned) > 0 =>
          next_send_sequence = (assigned[Len(assigned)] + 1) % 65536
    /\ \A t1, t2 \in Threads :
          (t1 # t2 /\ call[t1] # Idle /\ call[t2] # Idle) =>
              call[t1].sequence # call[t2].sequence

\* two threads have taken 65535 and 0 and handed them to the socket in the
\* other order
C6_Witness ==
    /\ Len(assigned) >= 2
    /\ assigned[1] = 65535
    /\ assigned[2] = 0
    /\ Len(wire) >= 2
    /\ wire[1].sequence = 0
    /\ wire[2].sequence = 65535

\* C6 (as stated): moreover the datagrams handed to the socket for one peer
\* are in increasing sequence order, whatever the interleaving.
C6_SocketOrderPerPeer ==
    /\ C6_AssignedConsecutive
    /\ \A i, j \in 1..Len(wire) :
          (i < j /\ wire[i].to = wire[j].to) =>
              SignedDelta(wire[j].sequence, wire[i].sequence) > 0

Malformed(pkt) ==
    \/ pkt.length < HEADER_SIZE
    \/ pkt.ptype = PACKET_ENTITY_UPDATE /\ pkt.length < ENTITY_UPDATE_SIZE

\* C8: a truncated or malformed datagram changes neither the sequence
\* tracking nor the loss statistics.
C8_MalformedDropped ==
    (event.op = "recv" /\ Malformed(event.pkt)) =>
        /\ last_received_sequence = event.prev_seq
        /\ packets_lost = event.prev_lost
        /\ packet_loss_rate = event.prev_rate

\* C9: no snapshot holds more than MAX_ENTITIES_PER_PACKET entities.
C9_SnapshotEntityCap ==
    \A slot \in DOMAIN snapshots :
        Len(snapshots[slot].entities) <= MAX_ENTITIES_PER_PACKET

\* a snapshot was filled to the cap from a table with more recent entities
C9_Witness ==
    \E slot \in DOMAIN snapshots :
        /\ Len(snapshots[slot].entities) = MAX_ENTITIES_PER_PACKET
        /\ Len(entities) > MAX_ENTITIES_PER_PACKET
        /\ \A i \in 1..Len(entities) :
              ChangedRecently(snapshots[slot].timestamp, entities[i].last_update)

\* C10: a serialized snapshot is at most MAX_PACKET_SIZE bytes.
C10_SnapshotFitsPacket ==
    /\ \A t \in Threads :
          (call[t] # Idle /\ call[t].ptype = PACKET_SNAPSHOT) =>
              call[t].size <= MAX_PACKET_SIZE
    /\ \A i \in 1..Len(wire) : wire[i].size <= MAX_PACKET_SIZE


\* the snapshot the last step built: network_send_snapshot has just stored
\* it in the ring and taken its sequence number
SnapshotBuilt == event.op = "assign" /\ event.ptype = PACKET_SNAPSHOT

LatestSnapshot ==
    snapshots[(snapshot_head + SNAPSHOT_RING - 1) % SNAPSHOT_RING]

SnapshotIds(snapshot) ==
    {snapshot.entities[k].entity_id : k \in 1..Len(snapshot.entities)}

\* the table's entities inside the recency window that the snapshot omits
LeftOut(snapshot) ==
    {i \in 1..Len(entities) :
        /\ entities[i].entity_id \notin SnapshotIds(snapshot)
        /\ entities[i].last_update <= now
        /\ now - entities[i].last_update <= 2}

\* C11: when more entities changed inside the recency window than one
\* snapshot holds, the snapshot holds the most recently changed ones: no
\* entity left out was updated strictly later than an included one.
C11_MostRecentSelected ==
    SnapshotBuilt =>
        \A i \in LeftOut(LatestSnapshot) :
            \A k \in 1..Len(LatestSnapshot.entities) :
                entities[i].last_update <= LatestSnapshot.entities[k].last_update

\* C12: a snapshot holds only entities last updated at most 2 seconds
\* before it was built, none updated longer ago or stamped later than the
\* current time, and below the cap it holds every entity of that window.
C12_TemporalFilter ==
    SnapshotBuilt =>
        /\ \A k \in 1..Len(LatestSnapshot.entities) :
              /\ LatestSnapshot.entities[k].last_update <= now
              /\ now - LatestSnapshot.entities[k].last_update <= 2
        /\ Len(LatestSnapshot.entities) < MAX_ENTITIES_PER_PACKET =>
              LeftOut(LatestSnapshot) = {}

\* a snapshot below the cap was built from a table holding an entity
\* updated too long ago, one stamped in the future and one in the window
C12_Witness ==
    /\ SnapshotBuilt
    /\ Len(LatestSnapshot.entities) > 0
    /\ Len(LatestSnapshot.entities) < MAX_ENTITIES_PER_PACKET
    /\ \E i \in 1..Len(entities) : entities[i].last_update > now
    /\ \E i \in 1..Len(entities) :
          entities[i].last_update <= now /\ now - entities[i].last_update > 2


\* the last step ran the sendto loop of a snapshot
SnapshotSent == event.op = "sendto" /\ event.ptype = PACKET_SNAPSHOT

C14_BitmaskMatchesRecipients ==
    /\ SnapshotBuilt =>
          LatestSnapshot.player_ids =
              {i \in 0..(MAX_PLAYERS - 1) :
                  i < Len(players) /\ players[i + 1].connected}
    /\ SnapshotSent =>
          event.to = {players[i + 1].address : i \in LatestSnapshot.player_ids}

\* snapshots stored in the ring so far, oldest first (fewer than the ring
\* holds)
SnapshotsBuilt == [k \in 1..snapshot_head |-> snapshots[k - 1]]

Reconciling == event.op = "reconcile"

\* entities the local player owned when the last step started
OwnedBefore ==
    {i \in 1..Len(event.before) :
        event.before[i].owner_id = local_player_id}

\* a pose further than epsilon from the server's pose: position distance
\* above 0.1 or rotation distance above 0.01
Diverged(pose, server_pose) ==
    \/ VectorDistanceExceeds(pose.position, server_pose.position,
                             POSITION_EPSILON)
    \/ VectorDistanceExceeds(pose.rotation, server_pose.rotation,
                             ROTATION_EPSILON)

\* how often the last reconciliation reported entity i
Corrections(i) ==
    Len(SelectSeq(event.corrected, LAMBDA k : k = i))

\* C16: an owned entity whose predicted pose is further than epsilon from
\* the server's authoritative pose (position > 0.1 or rotation > 0.01) is
\* reported once by one call of network_reconcile_state, and its position
\* and rotation equal the authoritative ones afterwards.
C16_DivergenceCorrected ==
    Reconciling =>
        \A i \in OwnedBefore :
            Diverged(event.before[i],
                     authoritative[event.before[i].entity_id]) =>
                /\ Corrections(i) = 1
                /\ entities[i].position =
                       authoritative[entities[i].entity_id].position
                /\ entities[i].rotation =
                       authoritative[entities[i].entity_id].rotation

\* C17: an owned entity whose predicted pose is within epsilon of the
\* authoritative pose is not reported by network_reconcile_state and keeps
\* its position and rotation; reconciling once more changes nothing.
C17_WithinEpsilonUntouched ==
    Reconciling =>
        /\ \A i \in OwnedBefore :
              ~Diverged(event.before[i],
                        authoritative[event.before[i].entity_id]) =>
                  /\ Corrections(i) = 0
                  /\ entities[i].position = event.before[i].position
                  /\ entities[i].rotation = event.before[i].rotation
        /\ (\A i \in OwnedBefore :
               ~Diverged(event.before[i],
                         authoritative[event.before[i].entity_id])) =>
              Reconciled(entities) = entities

\* reconciliation ran on an owned entity predicted away from the
\* authoritative position, but by less than epsilon
C17_Witness ==
    /\ Reconciling
    /\ \E i \in OwnedBefore :
          /\ event.before[i].position #
                 authoritative[event.before[i].entity_id].position
          /\ ~Diverged(event.before[i],
                       authoritative[event.before[i].entity_id])

\* the last step ran network_interpolate_entities
Interpolating == event.op = "interpolate"

NotOwned ==
    {i \in 1..Len(entities) : entities[i].owner_id # local_player_id}

\* seconds since the latest state of entity i arrived, clamped to the
\* interpolation window
Elapsed(i) ==
    IF now - entities[i].last_update > entities[i].interpolation_time
    THEN entities[i].interpolation_time
    ELSE IF now < entities[i].last_update THEN 0
    ELSE now - entities[i].last_update

\* position of entity i is p0 + (p1 - p0) * clamp((t - t0) / (t1 - t0), 0, 1)
\* for the position p0 known before the latest state p1 arrived at t0 and
\* the window t1 - t0, both sides multiplied by the window
Blended(i) ==
    \A c \in {"x", "y", "z"} :
        entities[i].position[c] * entities[i].interpolation_time =
            authoritative[entities[i].entity_id].prior[c]
                * entities[i].interpolation_time
            + (authoritative[entities[i].entity_id].position[c]
               - authoritative[entities[i].entity_id].prior[c]) * Elapsed(i)

\* C18: after network_interpolate_entities the position of every entity
\* not owned by the local peer is p0 + (p1-p0)*clamp((t-t0)/(t1-t0),0,1)
\* between its last two received states.
C18_InterpolatedPosition ==
    Interpolating =>
        \A i \in NotOwned :
            entities[i].interpolation_time > 0 => Blended(i)

\* C19: network_interpolate_entities leaves out entities owned by the
\* local player and entities last updated more than 1 second ago (their
\* pose stays as it was), and interpolates every other entity.
C19_StaleAndOwnedExcluded ==
    Interpolating =>
        \A i \in 1..Len(entities) :
            IF \/ i \notin NotOwned
               \/ entities[i].last_update > now
               \/ now - entities[i].last_update > 1
            THEN /\ i \notin event.blended
                 /\ entities[i].position = event.before[i].position
                 /\ entities[i].rotation = event.before[i].rotation
            ELSE /\ i \in event.blended
                 /\ Blended(i)

\* C20: on a server with A and B registered and A's entity 1 moved by A's
\* input from (0,0,0) to (1,0,0), the next snapshot holds entity 1 at
\* (1,0,0) and is sent to B; on the client that knew entity 1 at (0,0,0)
\* and received it at (1,0,0), the interpolated position half an
\* interpolation window later is (0.5,0,0).
C20_EndToEnd ==
    /\ (is_server /\ SnapshotBuilt /\ entities[1].position = Moved
            /\ ChangedRecently(now, entities[1].last_update)) =>
          \E k \in 1..Len(LatestSnapshot.entities) :
              /\ LatestSnapshot.entities[k].entity_id = 1
              /\ LatestSnapshot.entities[k].position = Moved
    /\ (is_server /\ SnapshotSent /\ players = Registered) =>
          "B" \in event.to
    /\ (~is_server /\ Interpolating
            /\ authoritative[1].prior = Origin
            /\ authoritative[1].position = Moved
            /\ 2 * (now - entities[1].last_update) =
                   entities[1].interpolation_time) =>
          entities[1].position = Vector4(FloatScale \div 2, 0, 0, 0)


----------------------------------------------------------------------------
(* Sessions                                                                *)

\* the address has a slot whose session is over
SessionEnded(table, addr) ==
    \E i \in 1..Len(table) : table[i].address = addr /\ ~table[i].connected

\* C22: a session only moves forward: a slot that is disconnected stays
\* disconnected with its identity whatever is received or sent, and a peer
\* that reconnects is tracked from fresh sequence counters: its CONNECT
\* with sequence 1, the first of the new session's stream, is in order and
\* records no lost packet.
C22_SessionsForward ==
    [][/\ \A i \in 1..Len(players) :
            ~players[i].connected =>
                /\ Len(players') >= i
                /\ players'[i] = players[i]
       /\ (/\ Len(players') > Len(players)
           /\ SessionEnded(players, event'.pkt.from)
           /\ event'.pkt.sequence = 1) => packets_lost' = packets_lost
      ]_vars


----------------------------------------------------------------------------
(* Voice                                                                   *)

\* the audio bytes of a voice datagram of this size
AudioBytes(size) == size - HEADER_SIZE - VOICE_HEADER_SIZE

\* C28: the audio payload of a voice packet is bounded: whatever data_size
\* network_send_voice is called with, the packet it has built, and every
\* voice datagram handed to sendto, carries at most 1200 audio bytes and is
\* no longer than MAX_PACKET_SIZE.
C28_VoicePayloadBounded ==
    /\ \A t \in Threads :
          (call[t] # Idle /\ call[t].ptype = PACKET_VOICE_DATA) =>
              /\ AudioBytes(call[t].size) <= AUDIO_DATA_SIZE
              /\ call[t].size <= MAX_PACKET_SIZE
    /\ \A i \in 1..Len(wire) :
          wire[i].ptype = PACKET_VOICE_DATA =>
              /\ AudioBytes(wire[i].size) <= AUDIO_DATA_SIZE
              /\ wire[i].size <= MAX_PACKET_SIZE


----------------------------------------------------------------------------
(* Locking discipline                                                      *)

NetworkCalls == {"sendto", "recvfrom"}

\* C26: every read and write of the entity table happens with entity_mutex
\* held and every read and write of the player table with player_mutex
\* held, the broadcast loops over players[i].connected and
\* players[i].address included.
C26_TablesUnderLocks ==
    \A a \in access :
        /\ a.what = "entities" => entity_mutex \in a.under
        /\ a.what = "players" => player_mutex \in a.under

\* C27: no lock is held across a network call: at every sendto and
\* recvfrom the calling thread holds none of entity_mutex, player_mutex
\* and network_mutex.
C27_NoLockAcrossNetworkCall ==
    \A a \in access : a.what \in NetworkCalls => a.under = {}

\* a snapshot, built under the three mutexes one after the other, is handed
\* to sendto, after the receive thread has processed a datagram
C27_Witness ==
    /\ \E a \in access : a.what = "sendto" /\ a.thread = SendThread
    /\ event.op = "sendto"
    /\ event.ptype = PACKET_SNAPSHOT
    /\ event.to # {}
    /\ packets_received > 0


----------------------------------------------------------------------------
(* Start and stop                                                          *)

\* C24: cooperative shutdown terminates: once network_manager_stop has
\* cleared network_active, the three threads leave their loops and
\* network_manager_stop returns.
C24_StopReturns == (caller = "stopping") ~> (caller = "stopped")

\* network_manager_stop has returned after the threads have received
\* datagrams and sent on a tick
C24_Witness ==
    /\ caller = "stopped"
    /\ packets_received > 0
    /\ network_ticks > 0

\* C25: the socket is closed only after the three threads have been
\* joined, and no thread calls sendto or recvfrom on the closed socket.
C25_ClosedAfterJoins ==
    udp_socket = "closed" =>
        /\ \A th \in ManagerThreads : thread[th] = "joined"
        /\ \A a \in access : a.what \notin NetworkCalls

\* the socket is closed after the send thread has handed datagrams to it
C25_Witness ==
    /\ udp_socket = "closed"
    /\ \E i \in 1..Len(wire) : wire[i].ptype \in {PACKET_SNAPSHOT, PACKET_INPUT}

\* C29: the server builds one snapshot every SNAPSHOT_INTERVAL ticks of
\* the send thread: the number of snapshots built is the number of ticks
\* divided by the interval.
C29_SnapshotEveryInterval ==
    is_server => snapshot_counter = network_ticks \div SNAPSHOT_INTERVAL

\* C30: a receive error does not end the receive thread: after the error
\* it is still in its loop, and it returns only when network_active has
\* been cleared.
C30_ReceiveErrorSurvived ==
    [][/\ event'.op = "recv_error" => thread'[ReceiveThread] = "running"
       /\ (/\ thread[ReceiveThread] = "running"
           /\ thread'[ReceiveThread] = "exited") => ~network_active
      ]_vars

\* recvfrom has failed after a datagram was received, and the thread runs
C30_Witness ==
    /\ event.op = "recv_error"
    /\ packets_received > 0
    /\ thread[ReceiveThread] = "running"


----------------------------------------------------------------------------
(* Reliable delivery                                                       *)

\* how many datagrams of a reliable message went to one destination
Transmissions(sequence, to) ==
    Cardinality({i \in 1..Len(wire) :
                    /\ wire[i].ptype = PACKET_RPC
                    /\ wire[i].sequence = sequence
                    /\ wire[i].to = to})

\* the sequence numbers of the reliable datagrams a step hands to sendto
NewlySent(before, after) ==
    {after[i].sequence : i \in (Len(before) + 1)..Len(after)}

\* the packets of the queue that wait for an acknowledgment
Pending(queue) ==
    {queue[i].sequence : i \in {j \in 1..Len(queue) : ~queue[j].acked}}

\* C21: a reliable message is sent to a destination once and retransmitted
\* at most MaxRetries times; a retransmission is always of a message that
\* is still queued and not acknowledged, so neither an acknowledged message
\* nor one that was given up is sent again; and a message leaves the queue
\* unacknowledged exactly when its MaxRetries retransmissions have been
\* made, with the peer-unreachable signal raised for it in that step.
C21_RetryBudget ==
    [][/\ \A sequence \in 0..(MaxReliable - 1) :
             \A to \in Peers \cup {ServerAddress} :
                 Transmissions(sequence, to)' <= 1 + MaxRetries
       /\ event'.op = "retries" =>
             /\ NewlySent(wire, wire') \subseteq Pending(sent_packets)
             /\ event'.unreachable
                    = Pending(sent_packets) \ Pending(sent_packets')
             /\ \A sequence \in event'.unreachable :
                    \A to \in Peers \cup {ServerAddress} :
                        Transmissions(sequence, to) \in {0} \cup
                            (MaxRetries .. (1 + MaxRetries))
       /\ event'.op # "retries" =>
             Pending(sent_packets) \ Pending(sent_packets')
                 \subseteq (IF event'.op = "ack" THEN {event'.sequence}
                                                ELSE {})
      ]_vars

\* a message was given up after its retries, another was acknowledged
C21_Witness ==
    /\ event.op = "retries"
    /\ event.unreachable # {}
    /\ \E i \in 1..Len(sent_packets) : sent_packets[i].acked
    /\ \E i \in 1..Len(wire) : wire[i].sequence \in event.unreachable


----------------------------------------------------------------------------
(* Eviction                                                                *)

\* slot i is connected and its peer has been silent for longer than the
\* timeout
Silent(i) ==
    /\ i <= Len(players)
    /\ players[i].connected
    /\ now - last_packet_time[i] > LivenessTimeout

\* the entities a player owns
OwnedBy(id) == {i \in 1..Len(entities) : entities[i].owner_id = id}

\* the addresses a step hands snapshot datagrams for
SnapshotsTo(before, after) ==
    {after[i].to : i \in {j \in (Len(before) + 1)..Len(after) :
                             after[j].ptype = PACKET_SNAPSHOT}}

----------------------------------------------------------------------------
(* Dispatch                                                                *)

\* the last step received a header-valid datagram carrying the expected
\* sequence number
InOrder ==
    /\ Accepted
    /\ event.pkt.sequence = (event.prev_seq + 1) % 65536

\* the type bytes for which the switch has no case
NoCase == {PACKET_ENTITY_CREATE, PACKET_ENTITY_DESTROY, PACKET_PONG + 1}

\* C31 (as stated): an in-order packet advances last_received_sequence by
\* one, leaves packets_lost and packet_loss_rate unchanged and is dispatched
\* to exactly one handler selected by its type.
C31_InOrderOneHandler ==
    InOrder =>
        /\ last_received_sequence = (event.prev_seq + 1) % 65536
        /\ packets_lost = event.prev_lost
        /\ packet_loss_rate = event.prev_rate
        /\ event.handler = {event.pkt.ptype}

\* C31 (amended): an in-order packet advances last_received_sequence by
\* one and leaves packets_lost and packet_loss_rate unchanged; it is
\* dispatched to the one handler of its type if the switch has a case for
\* the type, and to no handler for ENTITY_CREATE, ENTITY_DESTROY and type
\* bytes outside the enum.
C31_InOrderAtMostOneHandler ==
    InOrder =>
        /\ last_received_sequence = (event.prev_seq + 1) % 65536
        /\ packets_lost = event.prev_lost
        /\ packet_loss_rate = event.prev_rate
        /\ event.handler = {event.pkt.ptype} \ NoCase

\* the second datagram in a row arrives in order and is an ENTITY_CREATE,
\* which no handler takes
C31_Witness ==
    /\ InOrder
    /\ event.prev_seq = 1
    /\ event.pkt.ptype = PACKET_ENTITY_CREATE
    /\ event.handler = {}
    /\ packets_lost = 0


----------------------------------------------------------------------------
(* Snapshot ring                                                           *)

\* ids of the snapshots the ring is to hold after n builds
LastBuilt(n) == {id \in 0..(n - 1) : id + SNAPSHOT_RING >= n}

\* the ring follows the number of snapshots built
RingKeepsLatest ==
    /\ snapshot_head = snapshot_counter % SNAPSHOT_RING
    /\ snapshot_head \in 0..(SNAPSHOT_RING - 1)
    /\ \A id \in LastBuilt(snapshot_counter) :
          snapshots[id % SNAPSHOT_RING].snapshot_id = id
    /\ \A slot \in DOMAIN snapshots :
          (\A id \in LastBuilt(snapshot_counter) : id % SNAPSHOT_RING # slot)
              => snapshots[slot] = EmptySnapshot

\* C32: after n calls of network_send_snapshot on a server snapshot_head is
\* n modulo 64, the ring holds the last min(n, 64) snapshots built, and the
\* entry stored on a tick is the snapshot serialized and sent on that tick.
C32_RingKeepsSentSnapshots ==
    /\ RingKeepsLatest
    /\ SnapshotSent => event.payload = SerializeSnapshot(LatestSnapshot)

\* the ring has wrapped and a snapshot was sent afterwards
C32_Wrapped ==
    /\ SnapshotSent
    /\ snapshot_counter = SNAPSHOT_RING + 1
    /\ snapshot_head = 1
    /\ snapshots[0].snapshot_id = SNAPSHOT_RING


----------------------------------------------------------------------------
(* Preconditions of the operations                                         *)

\* the last step was a call of network_send_entity_update by some thread
UpdateCalled ==
    \/ event.op = "assign" /\ event.ptype = PACKET_ENTITY_UPDATE
    \/ event.op = "return" /\ event.fn = "network_send_entity_update"

\* next_send_sequence when that call began
SequenceBefore ==
    IF event.op = "assign" THEN event.sequence ELSE event.prev_sequence

\* addresses of the players a server holds as connected
ConnectedPeers ==
    {players[i].address : i \in {k \in 1..Len(players) : players[k].connected}}

\* C33: on a started server with a connected player, a call of
\* network_send_entity_update takes the next sequence number and sends the
\* ENTITY_UPDATE datagram to every connected player.
C33_ServerBroadcastsUpdate ==
    /\ (is_server /\ network_active /\ ConnectedPeers # {} /\ UpdateCalled) =>
          /\ next_send_sequence = (SequenceBefore + 1) % U16
          /\ call[event.thread] # Idle
          /\ call[event.thread].ptype = PACKET_ENTITY_UPDATE
    /\ (is_server /\ event.op = "sendto"
                  /\ event.ptype = PACKET_ENTITY_UPDATE) =>
          event.to = ConnectedPeers


\* a step in which an operation returned on its first line
Returns == event'.op = "return"

\* a step in which an operation went past its first line
Passes(fn) ==
    CASE fn = "network_send_entity_update" ->
            event'.op = "assign" /\ event'.ptype = PACKET_ENTITY_UPDATE
      [] fn = "network_send_voice" ->
            event'.op = "assign" /\ event'.ptype = PACKET_VOICE_DATA
      [] fn = "network_send_snapshot" ->
            event'.op = "assign" /\ event'.ptype = PACKET_SNAPSHOT
      [] fn = "network_interpolate_entities" -> event'.op = "interpolate"
      [] fn = "network_reconcile_state" -> event'.op = "reconcile"

\* C34: network_send_entity_update and network_send_voice with
\* is_connected = FALSE and network_send_snapshot on a client return
\* without sending: next_send_sequence, packets_sent, bytes_sent, the
\* datagrams on the wire and the snapshot ring stay as they were;
\* network_interpolate_entities and network_reconcile_state on a server
\* return with the entity table as it was.
C34_FailedPreconditionNoOp ==
    [][/\ Returns =>
              UNCHANGED <<next_send_sequence, packets_sent, bytes_sent, wire,
                          snapshots, snapshot_head, snapshot_counter,
                          entities, call>>
       /\ ~is_connected =>
              /\ ~Passes("network_send_entity_update")
              /\ ~Passes("network_send_voice")
       /\ ~is_server => ~Passes("network_send_snapshot")
       /\ is_server =>
              /\ ~Passes("network_interpolate_entities")
              /\ ~Passes("network_reconcile_state")]_vars

\* a started client whose connection is not up called
\* network_send_entity_update, which returned
C34_Witness ==
    /\ event.op = "return"
    /\ event.fn = "network_send_entity_update"
    /\ ~is_server
    /\ ~is_connected
    /\ network_active
    /\ next_send_sequence = event.prev_sequence


----------------------------------------------------------------------------
(* The three mutexes                                                       *)

Mutexes == {entity_mutex, player_mutex, network_mutex}

\* thread t is at a pthread_mutex_lock of m
Waits(t, m) == pending[t] # <<>> /\ Head(pending[t]) = Lock(m)

Waiting(t) == \E m \in Mutexes : Waits(t, m)

----------------------------------------------------------------------------
(* The loss rate                                                           *)

\* the last step divided lost_packets by the sequence number it received
Divided ==
    /\ Accepted
    /\ event.pkt.sequence # ExpectedSequence(event.prev_seq)

\* C36: after any sequence of received packets packet_loss_rate is a
\* fraction between 0 and 1, and the division that computes it never has a
\* zero divisor.
C36_LossRateIsFraction ==
    /\ packet_loss_rate \in 0..RateScale
    /\ Divided => event.pkt.sequence # 0


----------------------------------------------------------------------------
(* The mobile extension                                                    *)

\* the slots of the client list that refer to a record already freed
DanglingSlots ==
    {i \in 1..Len(clients) :
        clients[i] # NULL /\ client_memory[clients[i]].freed}

\* C37: once client_handler_thread has finished for a client no slot of
\* extension->clients refers to it, video_stream_thread reads no freed
\* client, client_count is the number of live clients, and a connection is
\* turned away only while MAX_MOBILE_CLIENTS clients are live.
C37_ClientsRemovedBeforeFree ==
    /\ DanglingSlots = {}
    /\ event.op = "stream" => event.dangling = {}
    /\ client_count = Cardinality(Live)
    /\ event.op = "reject" => event.live >= MAX_MOBILE_CLIENTS


----------------------------------------------------------------------------
(* The cloud content cache                                                 *)

\* the last step added to a full cache and evicted an entry whose
\* last_access no other entry was below
EvictedOldest ==
    \A k \in 1..event.size_before :
        event.before[event.evicted].last_access <= event.before[k].last_access

\* C38: cache_size stays within 0..LOCAL_CACHE_SIZE; adding to a full cache
\* evicts the entry with the oldest last_access and no other; an expired
\* entry is removed on lookup and not returned; and the entry a caller got
\* from find_in_cache still holds the content it asked for when it uses it.
C38_CacheConsistent ==
    /\ cache_size \in 0..LOCAL_CACHE_SIZE
    /\ (event.op = "add" /\ event.full) =>
          /\ EvictedOldest
          /\ cache_size = event.size_before
    /\ (event.op = "find" /\ event.expired) =>
          /\ event.returned = NULL
          /\ cache_size = event.size_before - 1
          /\ found[event.thread] = NoEntry
    /\ event.op = "use" => event.got = event.wanted

=============================================================================
